---- MODULE Spec2Model ----
(***************************************************************************)
(* The adaptive multi-tier verification pipeline of Lora:                  *)
(*   backend/services/ultraSpeed.js          ultraSpeedCheck and helpers   *)
(*   backend/services/truthfulnessSpectrum.js  personal filter, scoring    *)
(*   backend/services/semanticCache.js       the exact and semantic stores *)
(*   backend/services/inputCompressor.js     quickClean                    *)
(*   backend/services/webSearch.js           quickSearchSources            *)
(*                                                                         *)
(* Numbers.  A verdict's numeric value is kept in hundredths (true = 100). *)
(* A confidence of a tier or of a merged result is kept in units of 1/3000 *)
(* (0.92 = 2760), which makes base * n/3 and the 0.3/0.7 and 0.4/0.6       *)
(* weightings exact integers.  A verifier's own confidence is the 0..100   *)
(* integer of the verifier contract.                                       *)
(***************************************************************************)
EXTENDS Integers, Sequences, FiniteSets, TLC

\* null where a string is expected (a verdict, a mode, a label)
Null == "null"
\* a null score
NoScore == -1
\* a null confidence
NoConfidence == -1
\* a null embedding
NoEmbedding == <<>>

(***************************************************************************)
(* Bounds of the model.                                                    *)
(***************************************************************************)
\* direct cacheResult calls (other callers of the exported cache API)
MaxDirectWrites == 1
\* steps of the clock
MaxTicks == 1

(***************************************************************************)
(* Text.  A text is a sequence of tokens; a token is a piece of text that  *)
(* the normalisers never split.  Word tokens begin and end with a letter.  *)
(***************************************************************************)
Space == " "
Tab == "\t"
Filler == "um"
WordTokens == {"um", "I think", "i think", "The sky is blue", "the sky is blue"}
Tokens == WordTokens \cup {Space, Tab}

IsSpace(t) == t \in {Space, Tab}

\* String.prototype.toLowerCase on one token
LowerTok(t) ==
  CASE t = "I think" -> "i think"
    [] t = "The sky is blue" -> "the sky is blue"
    [] OTHER -> t

\* number of characters of a token
TokLen(t) ==
  CASE t \in {"I think", "i think"} -> 7
    [] t \in {"The sky is blue", "the sky is blue"} -> 15
    [] t = "um" -> 2
    [] OTHER -> 1

RECURSIVE CharLen(_)
CharLen(s) == IF s = <<>> THEN 0 ELSE TokLen(Head(s)) + CharLen(Tail(s))

LowerText(s) == [i \in 1..Len(s) |-> LowerTok(s[i])]

RECURSIVE TrimLeft(_)
TrimLeft(s) ==
  IF s = <<>> THEN <<>>
  ELSE IF IsSpace(Head(s)) THEN TrimLeft(Tail(s)) ELSE s

RECURSIVE TrimRight(_)
TrimRight(s) ==
  IF s = <<>> THEN <<>>
  ELSE IF IsSpace(s[Len(s)]) THEN TrimRight(SubSeq(s, 1, Len(s) - 1)) ELSE s

\* String.prototype.trim
Trim(s) == TrimRight(TrimLeft(s))

\* replace(/\s+/g, ' '): every maximal run of whitespace becomes one space
RECURSIVE CollapseWs(_)
CollapseWs(s) ==
  IF s = <<>> THEN <<>>
  ELSE IF IsSpace(Head(s))
       THEN <<Space>> \o CollapseWs(TrimLeft(s))
       ELSE <<Head(s)>> \o CollapseWs(Tail(s))

\* a trim that takes one whitespace character from each end
hashText_trimOne(text) ==
  LET lower == LowerText(text)
      left == IF lower # <<>> /\ IsSpace(Head(lower)) THEN Tail(lower) ELSE lower
      both == IF left # <<>> /\ IsSpace(left[Len(left)])
              THEN SubSeq(left, 1, Len(left) - 1) ELSE left
  IN CollapseWs(both)

\* the text that hashText digests; SHA-256 is taken to be injective, so the
\* digest is identified with the normalized text
hashText(text) == CollapseWs(Trim(LowerText(text)))

\* replace(/\b(um|uh|like|...)\b/gi, ''): a filler token is removed where it
\* stands as a word of its own, i.e. is not glued to another word token
RemoveFillers(s) ==
  LET standsAlone(i) == /\ s[i] = Filler
                        /\ (i = 1 \/ IsSpace(s[i - 1]))
                        /\ (i = Len(s) \/ IsSpace(s[i + 1]))
      keep == {i \in 1..Len(s) : ~standsAlone(i)}
      RECURSIVE Pick(_)
      Pick(i) == IF i > Len(s) THEN <<>>
                 ELSE IF i \in keep THEN <<s[i]>> \o Pick(i + 1) ELSE Pick(i + 1)
  IN Pick(1)

\* quickClean: the tokens carry no emoji, URL, repeated punctuation or
\* repeated word, so those replacements leave every text here unchanged
quickClean(text) == Trim(CollapseWs(RemoveFillers(CollapseWs(text))))

\* detectPersonalStatement(text).isPersonal: of the pattern lists only
\* /^i think/ (opinion) can match a text over Tokens
detectPersonalStatement(text) ==
  LET lower == Trim(LowerText(text))
  IN IF CharLen(lower) = 0 THEN [isPersonal |-> TRUE, reason |-> "empty input"]
     ELSE IF CharLen(lower) < 10
          THEN [isPersonal |-> TRUE, reason |-> "too short to be a factual claim"]
     ELSE IF Head(lower) = "i think"
          THEN [isPersonal |-> TRUE, reason |-> "subjective opinion"]
     ELSE [isPersonal |-> FALSE, reason |-> "appears to be a factual claim"]

(***************************************************************************)
(* Consensus scoring (truthfulnessSpectrum.js, ultraSpeed.js).             *)
(***************************************************************************)
\* what a verifier may answer with (the verifier contract of openai.js,
\* google.js, perplexity.js, anthropic.js)
Verdicts == {"true", "false", "partially_true", "unverifiable"}

\* verdict strings beyond the contract that a verifier's JSON may carry: other
\* letter case, free wording with or without the word true
OtherVerdicts == {"TRUE", "probably true", "maybe"}

\* verdict.toLowerCase().replace(/[_-]/g, '_'); no verdict here has a hyphen
LowerVerdict(verdict) ==
  CASE verdict = "TRUE" -> "true"
    [] OTHER -> verdict

\* String.prototype.includes on a lower-cased verdict, for the words the code asks for
Includes(v, word) ==
  CASE word = "true" -> v \in {"true", "mostly_true", "partially_true", "probably true"}
    [] word = "false" -> v \in {"false", "mostly_false"}
    [] word = "partial" -> v = "partially_true"
    [] word = "mixed" -> v = "mixed"
    [] word = "mostly" -> v \in {"mostly_true", "mostly_false"}
    [] OTHER -> FALSE

\* VERDICT_SCORES, in hundredths
VERDICT_SCORES ==
  [true |-> 100, mostly_true |-> 80, partially_true |-> 50, mixed |-> 50,
   unverifiable |-> 35, mostly_false |-> 20, false |-> 0]

\* normalizeVerdict, in hundredths; an absent verdict is Null
normalizeVerdict(verdict) ==
  IF verdict = Null THEN 35
  ELSE LET normalized == LowerVerdict(verdict)
       IN IF normalized \in DOMAIN VERDICT_SCORES THEN VERDICT_SCORES[normalized]
          ELSE IF Includes(normalized, "true") /\ ~Includes(normalized, "false")
               THEN IF Includes(normalized, "partial") \/ Includes(normalized, "mixed")
                    THEN 50
                    ELSE IF Includes(normalized, "mostly") THEN 80 ELSE 100
          ELSE IF Includes(normalized, "false")
               THEN IF Includes(normalized, "mostly") THEN 20 ELSE 0
          ELSE 35

\* Math.min(100, Math.max(0, confidence))
ClampConfidence(c) == IF c < 0 THEN 0 ELSE IF c > 100 THEN 100 ELSE c

RECURSIVE SumSeq(_)
SumSeq(s) == IF s = <<>> THEN 0 ELSE Head(s) + SumSeq(Tail(s))

\* Math.round of the quotient num/den of two naturals, den > 0
RoundDiv(num, den) == (2 * num + den) \div (2 * den)

\* the plain mean of the verdict values, the confidences ignored
computeTruthfulnessSpectrum_unweighted(responses) ==
  LET sum == SumSeq([i \in 1..Len(responses) |-> normalizeVerdict(responses[i].verdict)])
      totalWeight == SumSeq([i \in 1..Len(responses) |->
                       ClampConfidence(responses[i].confidence)])
  IN IF Len(responses) = 0 \/ totalWeight = 0 THEN NoScore
     ELSE RoundDiv(sum, Len(responses))

\* computeTruthfulnessSpectrum(responses).score; RoundDiv is Math.round of the
\* double quotient wherever the exact quotient is not a half, and the answer
\* sets of the specifications below produce no half
computeTruthfulnessSpectrum(responses) ==
  LET weightedSum == SumSeq([i \in 1..Len(responses) |->
                       normalizeVerdict(responses[i].verdict)
                         * ClampConfidence(responses[i].confidence)])
      totalWeight == SumSeq([i \in 1..Len(responses) |->
                       ClampConfidence(responses[i].confidence)])
  IN IF Len(responses) = 0 \/ totalWeight = 0 THEN NoScore
     ELSE RoundDiv(weightedSum, totalWeight)

\* v = r.verdict.toLowerCase(); v.includes('true') ? 100 : v.includes('false') ? 0 : 50
CoarseScore(verdict) ==
  LET v == LowerVerdict(verdict)
  IN IF Includes(v, "true") THEN 100
     ELSE IF Includes(v, "false") THEN 0
     ELSE 50

Max(S) == CHOOSE x \in S : \A y \in S : y <= x
Min(S) == CHOOSE x \in S : \A y \in S : x <= y

\* base confidences 0.92 and 0.75, and the cap 1, in units of 1/3000
ConfAgree == 2760
ConfDisagree == 2250
ConfOne == 3000

\* a tier result that is null in the code (the tier did not run)
NotRun == [ran |-> FALSE, score |-> NoScore, confidence |-> 0, agreement |-> FALSE]

\* computeBucketScore with a score of 0, not null, for an empty response set
computeBucketScore_emptyZero(responses) ==
  IF Len(responses) = 0
  THEN [ran |-> TRUE, score |-> 0, confidence |-> 0, agreement |-> FALSE]
  ELSE
    LET score == computeTruthfulnessSpectrum(responses)
        counted == {i \in 1..Len(responses) :
                      responses[i].verdict # Null /\ responses[i].confidence # 0}
        scores == {CoarseScore(responses[i].verdict) : i \in counted}
        agreement == counted # {} /\ Max(scores \cup {0}) - Min(scores \cup {100}) <= 30
        scaled == ((IF agreement THEN ConfAgree ELSE ConfDisagree) * Len(responses)) \div 3
    IN [ran |-> TRUE, score |-> score,
        confidence |-> IF score = NoScore THEN 0
                       ELSE IF scaled > ConfOne THEN ConfOne ELSE scaled,
        agreement |-> agreement]

\* computeBucketScore; ran tells the result from the null of a skipped tier
computeBucketScore(responses) ==
  IF Len(responses) = 0
  THEN [ran |-> TRUE, score |-> NoScore, confidence |-> 0, agreement |-> FALSE]
  ELSE
    LET score == computeTruthfulnessSpectrum(responses)
        counted == {i \in 1..Len(responses) :
                      responses[i].verdict # Null /\ responses[i].confidence # 0}
        scores == {CoarseScore(responses[i].verdict) : i \in counted}
        maxScore == Max(scores \cup {0})
        minScore == Min(scores \cup {100})
        agreement == counted # {} /\ maxScore - minScore <= 30
        base == IF agreement THEN ConfAgree ELSE ConfDisagree
        scaled == (base * Len(responses)) \div 3
    IN [ran |-> TRUE, score |-> score,
        confidence |-> IF score = NoScore THEN 0
                       ELSE IF scaled > ConfOne THEN ConfOne ELSE scaled,
        agreement |-> agreement]

(***************************************************************************)
(* Delta verification and merging (ultraSpeed.js).                         *)
(***************************************************************************)
\* CONFIG.SKIP_MID_THRESHOLD 0.88 and CONFIG.SKIP_FULL_THRESHOLD 0.90
SKIP_MID_THRESHOLD == 2640
SKIP_FULL_THRESHOLD == 2700

AbsDiff(a, b) == IF a >= b THEN a - b ELSE b - a

\* shouldRunMidBucket with && in the place of ||
shouldRunMidBucket_both(fastResult) ==
  fastResult.confidence < SKIP_MID_THRESHOLD /\ ~fastResult.agreement

shouldRunMidBucket(fastResult) ==
  fastResult.confidence < SKIP_MID_THRESHOLD \/ ~fastResult.agreement

\* shouldRunFullBucket without the score comparison of lines 255-261
shouldRunFullBucket_noScoreDiff(fastResult, midResult) ==
  \/ fastResult.confidence * 4 + midResult.confidence * 6 < SKIP_FULL_THRESHOLD * 10
  \/ ~(fastResult.agreement /\ midResult.agreement)

\* midResult is never null where ultraSpeedCheck calls this (line 478)
shouldRunFullBucket(fastResult, midResult) ==
  LET combinedTimes10 == fastResult.confidence * 4 + midResult.confidence * 6
      bothAgree == fastResult.agreement /\ midResult.agreement
  IN IF /\ fastResult.score # NoScore
        /\ midResult.score # NoScore
        /\ AbsDiff(fastResult.score, midResult.score) > 20
     THEN TRUE
     ELSE combinedTimes10 < SKIP_FULL_THRESHOLD * 10 \/ ~bothAgree

\* the (fast, mid) score pairs at which 0.3*fast + 0.7*mid is a half in exact
\* arithmetic but the IEEE-754 double sum lies just below it, so that
\* Math.round gives the lower neighbour
MergeTieDown ==
  {<<0,45>>, <<0,85>>, <<1,6>>, <<1,46>>, <<1,56>>, <<1,66>>, <<1,76>>, <<1,86>>,
   <<1,96>>, <<2,7>>, <<2,17>>, <<2,97>>, <<3,28>>, <<3,38>>, <<3,48>>, <<3,58>>,
   <<3,68>>, <<3,78>>, <<3,88>>, <<4,19>>, <<4,29>>, <<4,39>>, <<6,51>>, <<6,61>>,
   <<6,71>>, <<6,81>>, <<7,12>>, <<7,92>>, <<8,23>>, <<8,33>>, <<8,53>>, <<8,63>>,
   <<8,73>>, <<8,83>>, <<9,14>>, <<9,24>>, <<9,34>>, <<10,85>>, <<11,6>>, <<11,46>>,
   <<11,56>>, <<11,66>>, <<11,76>>, <<11,86>>, <<11,96>>, <<12,17>>, <<12,97>>, <<13,28>>,
   <<13,38>>, <<13,48>>, <<13,58>>, <<13,68>>, <<13,78>>, <<14,29>>, <<14,39>>, <<16,51>>,
   <<16,61>>, <<16,71>>, <<16,81>>, <<17,12>>, <<17,92>>, <<18,3>>, <<18,23>>, <<18,33>>,
   <<18,53>>, <<18,63>>, <<18,73>>, <<18,83>>, <<19,24>>, <<19,34>>, <<21,46>>, <<21,56>>,
   <<21,66>>, <<21,76>>, <<21,96>>, <<22,97>>, <<23,28>>, <<23,48>>, <<23,58>>, <<23,68>>,
   <<23,78>>, <<24,29>>, <<26,51>>, <<26,61>>, <<26,71>>, <<27,92>>, <<28,53>>, <<28,63>>,
   <<28,73>>, <<29,24>>, <<31,6>>, <<31,46>>, <<31,56>>, <<31,66>>, <<31,76>>, <<31,96>>,
   <<32,97>>, <<33,48>>, <<33,58>>, <<33,68>>, <<34,29>>, <<36,1>>, <<36,51>>, <<36,61>>,
   <<36,71>>, <<37,92>>, <<38,53>>, <<38,63>>, <<38,73>>, <<39,24>>, <<41,46>>, <<41,56>>,
   <<41,66>>, <<41,96>>, <<42,97>>, <<43,48>>, <<43,58>>, <<43,68>>, <<46,1>>, <<46,51>>,
   <<46,61>>, <<46,71>>, <<47,92>>, <<48,23>>, <<48,53>>, <<48,63>>, <<49,24>>, <<51,46>>,
   <<51,56>>, <<51,66>>, <<51,96>>, <<52,97>>, <<53,48>>, <<53,58>>, <<53,68>>, <<57,2>>,
   <<57,12>>, <<57,92>>, <<58,53>>, <<58,63>>, <<61,96>>, <<62,7>>, <<62,17>>, <<62,97>>,
   <<63,48>>, <<63,58>>, <<67,2>>, <<67,12>>, <<67,92>>, <<68,53>>, <<71,96>>, <<72,7>>,
   <<72,97>>, <<73,48>>, <<73,58>>, <<77,2>>, <<77,12>>, <<77,92>>, <<78,53>>, <<81,96>>,
   <<82,7>>, <<82,97>>, <<83,48>>, <<87,2>>, <<87,92>>, <<88,53>>, <<91,96>>, <<92,97>>,
   <<93,48>>, <<96,1>>, <<97,2>>, <<97,92>>}

\* the weighted mean with the two weights exchanged
MergeScore_swapped(fast, mid) ==
  LET f == IF fast = NoScore THEN 0 ELSE fast
  IN (7 * f + 3 * mid + 5) \div 10

\* Math.round((fastResult.score || 0) * 0.3 + midResult.score * 0.7)
MergeScore(fast, mid) ==
  LET f == IF fast = NoScore THEN 0 ELSE fast
  IN IF <<f, mid>> \in MergeTieDown THEN (3 * f + 7 * mid) \div 10
     ELSE (3 * f + 7 * mid + 5) \div 10

\* mergeResults looking at MID before FULL
mergeResults_midFirst(fastResult, midResult, fullResult) ==
  IF midResult.ran /\ midResult.score # NoScore
  THEN [score |-> MergeScore(fastResult.score, midResult.score),
        confidence |-> (fastResult.confidence * 3 + midResult.confidence * 7) \div 10,
        source |-> "mid"]
  ELSE IF fullResult.ran /\ fullResult.score # NoScore
  THEN [score |-> fullResult.score, confidence |-> fullResult.confidence,
        source |-> "full"]
  ELSE [score |-> fastResult.score, confidence |-> fastResult.confidence,
        source |-> "fast"]

mergeResults(fastResult, midResult, fullResult) ==
  IF fullResult.ran /\ fullResult.score # NoScore
  THEN [score |-> fullResult.score, confidence |-> fullResult.confidence,
        source |-> "full"]
  ELSE IF midResult.ran /\ midResult.score # NoScore
  THEN [score |-> MergeScore(fastResult.score, midResult.score),
        confidence |-> (fastResult.confidence * 3 + midResult.confidence * 7) \div 10,
        source |-> "mid"]
  ELSE [score |-> fastResult.score, confidence |-> fastResult.confidence,
        source |-> "fast"]

\* the two thresholds taken as strict
getVerdictFromScore_strict(score) ==
  IF score = NoScore THEN "UNKNOWN"
  ELSE IF score > 70 THEN "TRUE"
  ELSE IF score > 40 THEN "MIXED"
  ELSE "FALSE"

\* getVerdictFromScore
getVerdictFromScore(score) ==
  IF score = NoScore THEN "UNKNOWN"
  ELSE IF score >= 70 THEN "TRUE"
  ELSE IF score >= 40 THEN "MIXED"
  ELSE "FALSE"

(***************************************************************************)
(* The two cache stores (semanticCache.js).                                *)
(***************************************************************************)
EXACT_CACHE_TTL == 600000
SEMANTIC_CACHE_TTL == 86400000
MAX_SEMANTIC_ENTRIES == 1000
MAX_EXACT_ENTRIES == 5000

\* the vectors the embedding provider is taken to answer with
Embeddings == {<<1, 0>>, <<0, 1>>, <<4, 1>>}

Dot(a, b) == SumSeq([i \in 1..Len(a) |-> a[i] * b[i]])

\* the comparison with the threshold made strict
CosAtLeast_strict(a, b, p, q) ==
  /\ a # NoEmbedding /\ b # NoEmbedding /\ Len(a) = Len(b)
  /\ Dot(a, a) # 0 /\ Dot(b, b) # 0
  /\ Dot(a, b) > 0
  /\ Dot(a, b) * Dot(a, b) * q * q > p * p * Dot(a, a) * Dot(b, b)

\* cosineSimilarity(a, b) >= p/q, for 0 < p <= q; a missing vector, vectors
\* of different length and a zero norm give similarity 0
CosAtLeast(a, b, p, q) ==
  /\ a # NoEmbedding /\ b # NoEmbedding /\ Len(a) = Len(b)
  /\ Dot(a, a) # 0 /\ Dot(b, b) # 0
  /\ Dot(a, b) > 0
  /\ Dot(a, b) * Dot(a, b) * q * q >= p * p * Dot(a, a) * Dot(b, b)

\* cosineSimilarity(a, b) > p/q
CosAbove(a, b, p, q) ==
  /\ a # NoEmbedding /\ b # NoEmbedding /\ Len(a) = Len(b)
  /\ Dot(a, a) # 0 /\ Dot(b, b) # 0
  /\ Dot(a, b) > 0
  /\ Dot(a, b) * Dot(a, b) * q * q > p * p * Dot(a, a) * Dot(b, b)

\* cosineSimilarity(e, a) > cosineSimilarity(e, b), both being positive
CloserThan(e, a, b) ==
  Dot(e, a) * Dot(e, a) * Dot(b, b) > Dot(e, b) * Dot(e, b) * Dot(a, a)

\* SIMILARITY_THRESHOLD 0.93 and the "same entry" level 0.98, as fractions of 100
SIMILARITY_THRESHOLD == 93
SAME_ENTRY_LEVEL == 98

\* an entry served at the very age of the TTL
ExactHit_atTtl(ec, text, t) ==
  /\ hashText(text) \in DOMAIN ec
  /\ t - ec[hashText(text)].timestamp <= EXACT_CACHE_TTL

\* checkExactCache(text) at time t: the entry's data on a hit
ExactHit(ec, text, t) ==
  /\ hashText(text) \in DOMAIN ec
  /\ t - ec[hashText(text)].timestamp < EXACT_CACHE_TTL

\* semanticCache.filter(e => now - e.timestamp < SEMANTIC_CACHE_TTL)
\* semantic entries held to the TTL of the exact store
FilterFresh_exactTtl(sc, t) == SelectSeq(sc, LAMBDA e : t - e.timestamp < EXACT_CACHE_TTL)

FilterFresh(sc, t) == SelectSeq(sc, LAMBDA e : t - e.timestamp < SEMANTIC_CACHE_TTL)

\* the most recent entry at or above the threshold instead of the closest
BestMatch_newest(sc, embedding) ==
  LET cand == {i \in 1..Len(sc) :
                 CosAtLeast(embedding, sc[i].embedding, SIMILARITY_THRESHOLD, 100)}
  IN IF cand = {} THEN 0
     ELSE CHOOSE i \in cand : \A j \in cand : sc[j].timestamp <= sc[i].timestamp

\* the loop of checkSemanticCache over the filtered store: the index of the
\* best match, 0 if there is none
BestMatch(sc, embedding) ==
  LET cand == {i \in 1..Len(sc) :
                 CosAtLeast(embedding, sc[i].embedding, SIMILARITY_THRESHOLD, 100)}
      best == {i \in cand : /\ \A j \in cand : ~CloserThan(embedding, sc[j].embedding, sc[i].embedding)
                            /\ \A j \in cand : j < i => CloserThan(embedding, sc[i].embedding, sc[j].embedding)}
  IN IF cand = {} THEN 0 ELSE CHOOSE i \in best : TRUE

\* a result without a score is not stored
ExactWrite_scoredOnly(ec, text, data, t, maxEntries) ==
  IF data.score = NoScore THEN ec
  ELSE [k \in DOMAIN ec \cup {hashText(text)} |->
          IF k = hashText(text) THEN [data |-> data, timestamp |-> t] ELSE ec[k]]

\* an entry that is already stored is kept as it is
ExactWrite_keepFirst(ec, text, data, t, maxEntries) ==
  IF hashText(text) \in DOMAIN ec THEN ec
  ELSE [k \in DOMAIN ec \cup {hashText(text)} |->
          IF k = hashText(text) THEN [data |-> data, timestamp |-> t] ELSE ec[k]]

\* exactCache.set(hash, {data, timestamp}) and the clean-up of expired
\* entries once the map holds more than maxEntries
ExactWrite(ec, text, data, t, maxEntries) ==
  LET key == hashText(text)
      set == [k \in DOMAIN ec \cup {key} |->
                IF k = key THEN [data |-> data, timestamp |-> t] ELSE ec[k]]
      live == {k \in DOMAIN set : ~(t - set[k].timestamp > EXACT_CACHE_TTL)}
  IN IF Cardinality(DOMAIN set) > maxEntries
     THEN [k \in live |-> set[k]]
     ELSE set

\* Array.prototype.sort((a, b) => b.timestamp - a.timestamp): stable, newest first
\* (the entries of the latest timestamp in the order they stand in, then
\* those of the next timestamp, and so on)
RECURSIVE NewestFirstFrom(_, _)
NewestFirstFrom(sc, times) ==
  IF times = {} THEN <<>>
  ELSE LET t == Max(times)
       IN SelectSeq(sc, LAMBDA e : e.timestamp = t) \o NewestFirstFrom(sc, times \ {t})

SortNewestFirst(sc) == NewestFirstFrom(sc, {sc[i].timestamp : i \in DOMAIN sc})

\* an entry at the "same entry" level itself taken for the same entry
SemanticWrite_inclusive(sc, text, data, embedding, t, maxEntries) ==
  LET entry == [embedding |-> embedding, data |-> data, timestamp |-> t, text |-> text]
      same == {i \in 1..Len(sc) :
                 CosAtLeast(embedding, sc[i].embedding, SAME_ENTRY_LEVEL, 100)}
  IN IF same # {}
     THEN [sc EXCEPT ![Min(same)] = entry]
     ELSE Append(sc, entry)

\* a store over its capacity loses the entry at the front of the array
SemanticWrite_fifo(sc, text, data, embedding, t, maxEntries) ==
  LET entry == [embedding |-> embedding, data |-> data, timestamp |-> t, text |-> text]
      same == {i \in 1..Len(sc) :
                 CosAbove(embedding, sc[i].embedding, SAME_ENTRY_LEVEL, 100)}
  IN IF same # {}
     THEN [sc EXCEPT ![Min(same)] = entry]
     ELSE LET pushed == Append(sc, entry)
          IN IF Len(pushed) > maxEntries THEN Tail(pushed) ELSE pushed

\* the semantic part of cacheResult, for a non-null embedding
SemanticWrite(sc, text, data, embedding, t, maxEntries) ==
  LET entry == [embedding |-> embedding, data |-> data, timestamp |-> t, text |-> text]
      same == {i \in 1..Len(sc) :
                 CosAbove(embedding, sc[i].embedding, SAME_ENTRY_LEVEL, 100)}
  IN IF same # {}
     THEN [sc EXCEPT ![Min(same)] = entry]
     ELSE LET pushed == Append(sc, entry)
          IN IF Len(pushed) > maxEntries
             THEN SubSeq(SortNewestFirst(pushed), 1, maxEntries)
             ELSE pushed

(***************************************************************************)
(* Tiers and verifier calls (ultraSpeed.js).                               *)
(***************************************************************************)
\* MODEL_BUCKETS[tier].models, by name
Models(tier) ==
  CASE tier = "FAST" -> <<"GPT-4o-mini", "Gemini-Flash", "Perplexity-Lite">>
    [] tier = "MID" -> <<"GPT-4o", "Gemini-Pro">>
    [] tier = "FULL" -> <<"GPT-4o-Full", "Claude-Sonnet", "Gemini-Full", "Perplexity-Full">>

\* what the verifiers answer on time in the pipeline specification
Answers ==
  {[verdict |-> "true", confidence |-> 90]}

PendingCall == [st |-> "pending", verdict |-> Null, confidence |-> 0]

\* the confidence of the response that stands in for a timed-out call
TIMEOUT_CONFIDENCE == 25

\* runWithTimeout treating the timeout like any other rejection
runWithTimeout_timeoutFails(call, modelName) ==
  IF call.st = "ok"
  THEN [success |-> TRUE, model |-> modelName, verdict |-> call.verdict,
        confidence |-> call.confidence, timedOut |-> FALSE]
  ELSE [success |-> FALSE, model |-> modelName, verdict |-> Null,
        confidence |-> 0, timedOut |-> FALSE]

\* runWithTimeout: what one settled call contributes
runWithTimeout(call, modelName) ==
  CASE call.st = "ok" ->
         [success |-> TRUE, model |-> modelName, verdict |-> call.verdict,
          confidence |-> call.confidence, timedOut |-> FALSE]
    [] call.st = "timeout" ->
         [success |-> TRUE, model |-> modelName, verdict |-> "unverifiable",
          confidence |-> TIMEOUT_CONFIDENCE, timedOut |-> TRUE]
    [] OTHER -> \* "error"; a call that has not settled has no value either
         [success |-> FALSE, model |-> modelName, verdict |-> Null,
          confidence |-> 0, timedOut |-> FALSE]

\* runBucket without the filter on success
runBucket_unfiltered(tier, cs) ==
  [i \in 1..Len(cs) |-> runWithTimeout(cs[i], Models(tier)[i])]

\* runBucket: the responses of the settled calls cs of a tier, in model order
runBucket(tier, cs) ==
  SelectSeq([i \in 1..Len(cs) |-> runWithTimeout(cs[i], Models(tier)[i])],
            LAMBDA r : r.success)

ModelNames(responses) == [i \in 1..Len(responses) |-> responses[i].model]

(***************************************************************************)
(* State.                                                                  *)
(***************************************************************************)
VARIABLES
  now,            \* Date.now()
  ticks,          \* clock steps taken
  exactCache,     \* Map: hash -> {data, timestamp}
  semanticCache,  \* array of {embedding, data, timestamp, text}
  embeddingCache, \* Map: hash -> embedding
  pc,             \* where ultraSpeedCheck stands
  text,           \* its argument
  tier,           \* the tier whose runBucket is in progress
  calls,          \* that tier's runWithTimeout calls
  bucket,         \* the responses runBucket returned last
  fastResult, midResult, fullResult,
  usedModels, skipInfo,
  embeddingPromise,
  result,         \* what ultraSpeedCheck returned
  events,         \* the calls made to collaborators and stores, in order
  directWrites    \* direct cacheResult calls so far

stores == <<exactCache, semanticCache, embeddingCache>>
clock == <<now, ticks>>
locals == <<text, tier, calls, bucket, fastResult, midResult, fullResult,
            usedModels, skipInfo, embeddingPromise, result>>
counters == <<directWrites>>
vars == <<now, ticks, exactCache, semanticCache, embeddingCache, pc, text, tier,
          calls, bucket, fastResult, midResult, fullResult, usedModels, skipInfo,
          embeddingPromise, result, events, directWrites>>

NoUsedModels == [fast |-> <<>>, mid |-> <<>>, full |-> <<>>]
NoSkipInfo == [skippedMid |-> FALSE, skippedFull |-> FALSE]
NoPromise == [st |-> "none", value |-> NoEmbedding]
NoResult == [mode |-> Null]

Ev(name, arg) == [ev |-> name, arg |-> arg]
CallEvents(t) == [i \in 1..Len(Models(t)) |-> Ev("call", t)]
Count(name, arg) == Cardinality({i \in 1..Len(events) : events[i] = Ev(name, arg)})
CountEv(name) == Cardinality({i \in 1..Len(events) : events[i].ev = name})

Init ==
  /\ now = 0 /\ ticks = 0
  /\ exactCache = <<>> /\ semanticCache = <<>> /\ embeddingCache = <<>>
  /\ pc = "idle" /\ text = <<>> /\ tier = Null /\ calls = <<>> /\ bucket = <<>>
  /\ fastResult = NotRun /\ midResult = NotRun /\ fullResult = NotRun
  /\ usedModels = NoUsedModels /\ skipInfo = NoSkipInfo
  /\ embeddingPromise = NoPromise /\ result = NoResult
  /\ events = <<>> /\ directWrites = 0

(***************************************************************************)
(* ultraSpeedCheck, one action per stretch of code between two awaits.     *)
(***************************************************************************)
\* the calls of the tier recorded ahead of everything done before them
StartTier_callsFirst(t, evs) ==
  /\ tier' = t
  /\ calls' = [i \in 1..Len(Models(t)) |-> PendingCall]
  /\ events' = CallEvents(t) \o evs
  /\ pc' = "running"

\* the calls of tier t are made: runBucket up to its await
StartTier(t, evs) ==
  /\ tier' = t
  /\ calls' = [i \in 1..Len(Models(t)) |-> PendingCall]
  /\ events' = evs \o CallEvents(t)
  /\ pc' = "running"

\* FAST started with neither the embedding nor the source search under way
Launch_lazy(cleanedText, evs) ==
  /\ embeddingPromise' = NoPromise
  /\ StartTier("FAST", evs)
  /\ UNCHANGED <<bucket, fastResult, midResult, fullResult, usedModels, skipInfo, result>>

\* lines 399-438: the embedding and the source search are started, then FAST
Launch(cleanedText, evs) ==
  /\ IF hashText(cleanedText) \in DOMAIN embeddingCache'
     THEN /\ embeddingPromise' =
               [st |-> "resolved", value |-> embeddingCache'[hashText(cleanedText)]]
          /\ StartTier("FAST", evs \o <<Ev("search", cleanedText)>>)
     ELSE /\ embeddingPromise' = [st |-> "pending", value |-> NoEmbedding]
          /\ StartTier("FAST", evs \o <<Ev("embed", cleanedText), Ev("search", cleanedText)>>)
  /\ UNCHANGED <<bucket, fastResult, midResult, fullResult, usedModels, skipInfo, result>>

\* a missing embedding ends the request with an error
SemanticLookup_failsWithout(cleanedText, embedding, evs) ==
  /\ semanticCache' = semanticCache
  /\ result' = [fromCache |-> FALSE, mode |-> "error"]
  /\ pc' = "done"
  /\ events' = evs
  /\ UNCHANGED <<tier, calls, bucket, fastResult, midResult, fullResult,
                 usedModels, skipInfo, embeddingPromise>>

\* checkSemanticCache from the point where getEmbedding has answered
\* (lines 265-297 of semanticCache.js), then lines 388-438 of ultraSpeedCheck
SemanticLookup(cleanedText, embedding, evs) ==
  IF embedding = NoEmbedding
  THEN /\ semanticCache' = semanticCache
       /\ Launch(cleanedText, evs)
  ELSE /\ semanticCache' = FilterFresh(semanticCache, now)
       /\ LET m == BestMatch(semanticCache', embedding)
          IN IF m # 0
             THEN /\ result' = [fromCache |-> TRUE, cacheType |-> "semantic",
                                data |-> semanticCache'[m].data,
                                cacheSimilarity |-> <<Dot(embedding, semanticCache'[m].embedding),
                                                      Dot(embedding, embedding),
                                                      Dot(semanticCache'[m].embedding,
                                                          semanticCache'[m].embedding)>>]
                  /\ pc' = "done"
                  /\ events' = evs
                  /\ UNCHANGED <<tier, calls, bucket, fastResult, midResult, fullResult,
                                 usedModels, skipInfo, embeddingPromise>>
             ELSE Launch(cleanedText, evs)

\* the personal exit taken after the exact lookup instead of before it
PersonalExit_afterLookup(t) ==
  /\ result' = [fromCache |-> FALSE, mode |-> "personal", score |-> NoScore,
                confidence |-> NoConfidence, loraVerdict |-> Null,
                usedModels |-> usedModels,
                pipelineInfo |-> [skippedAll |-> TRUE, reason |-> "personal"]]
  /\ pc' = "done"
  /\ events' = events \o <<Ev("exactLookup", quickClean(t))>>
  /\ UNCHANGED <<semanticCache, embeddingCache, tier, calls, bucket, fastResult,
                 midResult, fullResult, usedModels, skipInfo, embeddingPromise>>

\* lines 350-365: the personal exit
PersonalExit(t) ==
  /\ result' = [fromCache |-> FALSE, mode |-> "personal", score |-> NoScore,
                confidence |-> NoConfidence, loraVerdict |-> Null,
                usedModels |-> usedModels,
                pipelineInfo |-> [skippedAll |-> TRUE, reason |-> "personal"]]
  /\ pc' = "done"
  /\ UNCHANGED <<semanticCache, embeddingCache, tier, calls, bucket, fastResult,
                 midResult, fullResult, usedModels, skipInfo, embeddingPromise, events>>

\* ultraSpeedCheck(t) up to its first await that waits for a collaborator; one
\* call of it is followed from its start to its return
Begin(t) ==
  /\ pc = "idle"
  /\ text' = t
  /\ UNCHANGED <<clock, exactCache, directWrites>>
  /\ IF detectPersonalStatement(t).isPersonal
     THEN PersonalExit(t)
     ELSE LET cleanedText == quickClean(t)
              key == hashText(cleanedText)
          IN IF ExactHit(exactCache, cleanedText, now)
             THEN /\ result' = [fromCache |-> TRUE, cacheType |-> "exact",
                                data |-> exactCache[key].data]
                  /\ pc' = "done"
                  /\ events' = events \o <<Ev("exactLookup", cleanedText)>>
                  /\ UNCHANGED <<semanticCache, embeddingCache, tier, calls, bucket,
                                 fastResult, midResult, fullResult, usedModels, skipInfo,
                                 embeddingPromise>>
             ELSE \* checkSemanticCache looks in the exact store once more
                  LET evs == events \o <<Ev("exactLookup", cleanedText),
                                         Ev("semanticLookup", cleanedText),
                                         Ev("exactLookup", cleanedText)>>
                  IN IF key \in DOMAIN embeddingCache
                     THEN /\ embeddingCache' = embeddingCache
                          /\ SemanticLookup(cleanedText, embeddingCache[key], evs)
                     ELSE /\ pc' = "semEmbed"
                          /\ events' = evs \o <<Ev("embed", cleanedText)>>
                          /\ UNCHANGED <<semanticCache, embeddingCache, tier, calls, bucket,
                                         fastResult, midResult, fullResult, usedModels,
                                         skipInfo, embeddingPromise, result>>

\* getEmbedding's provider call answers e (NoEmbedding: null or an error)
\* while checkSemanticCache waits for it
SemanticEmbedding(e) ==
  /\ pc = "semEmbed"
  /\ embeddingCache' =
       IF e = NoEmbedding THEN embeddingCache
       ELSE [k \in DOMAIN embeddingCache \cup {hashText(quickClean(text))} |->
               IF k = hashText(quickClean(text)) THEN e ELSE embeddingCache[k]]
  /\ SemanticLookup(quickClean(text), e, events)
  /\ UNCHANGED <<clock, exactCache, text, counters>>

\* a verifier answers before the timeout
Respond(i, a) ==
  /\ pc = "running"
  /\ i \in DOMAIN calls
  /\ calls[i].st = "pending"
  /\ calls' = [calls EXCEPT ![i] = [st |-> "ok", verdict |-> a.verdict,
                                    confidence |-> a.confidence]]
  /\ UNCHANGED <<clock, stores, pc, text, tier, bucket, fastResult, midResult,
                 fullResult, usedModels, skipInfo, embeddingPromise, result, events,
                 counters>>

\* a verifier call rejects before the timeout
Fail(i) ==
  /\ pc = "running"
  /\ i \in DOMAIN calls
  /\ calls[i].st = "pending"
  /\ calls' = [calls EXCEPT ![i] = [st |-> "error", verdict |-> Null, confidence |-> 0]]
  /\ UNCHANGED <<clock, stores, pc, text, tier, bucket, fastResult, midResult,
                 fullResult, usedModels, skipInfo, embeddingPromise, result, events,
                 counters>>

\* the timer of runWithTimeout fires first
Timeout(i) ==
  /\ pc = "running"
  /\ i \in DOMAIN calls
  /\ calls[i].st = "pending"
  /\ calls' = [calls EXCEPT ![i] = [st |-> "timeout", verdict |-> Null, confidence |-> 0]]
  /\ UNCHANGED <<clock, stores, pc, text, tier, bucket, fastResult, midResult,
                 fullResult, usedModels, skipInfo, embeddingPromise, result, events,
                 counters>>

\* a barrier that opens at the first settled call
AllSettled_any == \E i \in DOMAIN calls : calls[i].st # "pending"

\* Promise.allSettled: every runWithTimeout promise of the tier has settled
\* a join that waits for the verifiers themselves, timed out or not
AllSettled_answered == \A i \in DOMAIN calls : calls[i].st \in {"ok", "error"}

AllSettled == \A i \in DOMAIN calls : calls[i].st # "pending"

\* Promise.allSettled resolves: runBucket filters the responses and returns
Join ==
  /\ pc = "running"
  /\ AllSettled
  /\ bucket' = runBucket(tier, calls)
  /\ pc' = "joined"
  /\ UNCHANGED <<clock, stores, text, tier, calls, fastResult, midResult, fullResult,
                 usedModels, skipInfo, embeddingPromise, result, events, counters>>

\* lines 500-511: merge, then wait for the source search
ToMerge ==
  /\ pc' = "awaitSources"
  /\ tier' = Null
  /\ calls' = <<>>
  /\ events' = events

\* MID skipped without FULL being marked as skipped
AfterFast_skipsMidOnly ==
  /\ pc = "joined" /\ tier = "FAST"
  /\ usedModels' = [usedModels EXCEPT !.fast = ModelNames(bucket)]
  /\ fastResult' = computeBucketScore(bucket)
  /\ IF shouldRunMidBucket(fastResult')
     THEN /\ StartTier("MID", events)
          /\ skipInfo' = skipInfo
     ELSE /\ skipInfo' = [skippedMid |-> TRUE, skippedFull |-> FALSE]
          /\ ToMerge
  /\ bucket' = <<>>
  /\ UNCHANGED <<clock, stores, text, midResult, fullResult, embeddingPromise, result,
                 counters>>

\* lines 439-460 after runBucket('FAST')
AfterFast ==
  /\ pc = "joined" /\ tier = "FAST"
  /\ usedModels' = [usedModels EXCEPT !.fast = ModelNames(bucket)]
  /\ fastResult' = computeBucketScore(bucket)
  /\ IF shouldRunMidBucket(fastResult')
     THEN /\ StartTier("MID", events)
          /\ skipInfo' = skipInfo
     ELSE /\ skipInfo' = [skippedMid |-> TRUE, skippedFull |-> TRUE]
          /\ ToMerge
  /\ bucket' = <<>>
  /\ UNCHANGED <<clock, stores, text, midResult, fullResult, embeddingPromise, result,
                 counters>>

\* lines 469-487 after runBucket('MID')
AfterMid ==
  /\ pc = "joined" /\ tier = "MID"
  /\ usedModels' = [usedModels EXCEPT !.mid = ModelNames(bucket)]
  /\ midResult' = computeBucketScore(bucket)
  /\ IF shouldRunFullBucket(fastResult, midResult')
     THEN /\ StartTier("FULL", events)
          /\ skipInfo' = skipInfo
     ELSE /\ skipInfo' = [skipInfo EXCEPT !.skippedFull = TRUE]
          /\ ToMerge
  /\ bucket' = <<>>
  /\ UNCHANGED <<clock, stores, text, fastResult, fullResult, embeddingPromise, result,
                 counters>>

\* lines 487-511 after runBucket('FULL')
AfterFull ==
  /\ pc = "joined" /\ tier = "FULL"
  /\ usedModels' = [usedModels EXCEPT !.full = ModelNames(bucket)]
  /\ fullResult' = computeBucketScore(bucket)
  /\ ToMerge
  /\ bucket' = <<>>
  /\ UNCHANGED <<clock, stores, text, fastResult, midResult, skipInfo, embeddingPromise,
                 result, counters>>

\* lines 500-546: the source search settles (quickSearchSources resolves with
\* the sources found or, after 4000 ms, with none; the sources are carried into
\* the result untouched and are left out here); the result is built
SourcesSettle ==
  /\ pc = "awaitSources"
  /\ LET merged == mergeResults(fastResult, midResult, fullResult)
     IN result' = [fromCache |-> FALSE, mode |-> "fact_check",
                   score |-> merged.score, confidence |-> merged.confidence,
                   loraVerdict |-> getVerdictFromScore(merged.score),
                   usedModels |-> usedModels,
                   pipelineInfo |-> [skippedMid |-> skipInfo.skippedMid,
                                     skippedFull |-> skipInfo.skippedFull,
                                     source |-> merged.source]]
  /\ pc' = "awaitEmbedding"
  /\ UNCHANGED <<clock, stores, text, tier, calls, bucket, fastResult, midResult,
                 fullResult, usedModels, skipInfo, embeddingPromise, events, counters>>

SetEmbedding(ec, t, e) ==
  IF e = NoEmbedding THEN ec
  ELSE [k \in DOMAIN ec \cup {hashText(t)} |-> IF k = hashText(t) THEN e ELSE ec[k]]

\* lines 546-555: the embedding promise settles with e, then cacheResult
\* (semanticCache.js 302-344) up to its own getEmbedding call, if it makes one
EmbeddingSettles(e) ==
  /\ pc = "awaitEmbedding"
  /\ embeddingPromise.st = "resolved" => e = embeddingPromise.value
  /\ LET cleanedText == quickClean(text)
         ecache == IF embeddingPromise.st = "resolved" THEN embeddingCache
                   ELSE SetEmbedding(embeddingCache, cleanedText, e)
         written == events \o <<Ev("exactWrite", cleanedText)>>
     IN /\ exactCache' = ExactWrite(exactCache, cleanedText, result, now, MAX_EXACT_ENTRIES)
        /\ embeddingCache' = ecache
        /\ IF e # NoEmbedding
           THEN /\ semanticCache' = SemanticWrite(semanticCache, cleanedText, result, e,
                                                  now, MAX_SEMANTIC_ENTRIES)
                /\ events' = written \o <<Ev("semanticWrite", cleanedText)>>
                /\ pc' = "done"
           ELSE /\ semanticCache' = semanticCache
                /\ events' = written \o <<Ev("embed", cleanedText)>>
                /\ pc' = "writeEmbed"
  /\ embeddingPromise' = [st |-> "resolved", value |-> e]
  /\ UNCHANGED <<clock, text, tier, calls, bucket, fastResult, midResult, fullResult,
                 usedModels, skipInfo, result, counters>>

\* cacheResult's own getEmbedding call answers e; lines 318-344 of
\* semanticCache.js, then ultraSpeedCheck returns
WriteEmbedding(e) ==
  /\ pc = "writeEmbed"
  /\ embeddingCache' = SetEmbedding(embeddingCache, quickClean(text), e)
  /\ IF e # NoEmbedding
     THEN /\ semanticCache' = SemanticWrite(semanticCache, quickClean(text), result, e,
                                            exactCache[hashText(quickClean(text))].timestamp,
                                            MAX_SEMANTIC_ENTRIES)
          /\ events' = events \o <<Ev("semanticWrite", quickClean(text))>>
     ELSE /\ semanticCache' = semanticCache
          /\ events' = events
  /\ pc' = "done"
  /\ UNCHANGED <<clock, exactCache, text, tier, calls, bucket, fastResult, midResult,
                 fullResult, usedModels, skipInfo, embeddingPromise, result, counters>>

\* the payload the cache tests store
DirectPayloads == {[score |-> 85, cached |-> TRUE]}

\* cacheResult(t, data) called by another user of the cache module, with the
\* answer e of the embedding provider where getEmbedding has to ask it
DirectWrite(t, data, e) ==
  /\ pc = "idle"
  /\ directWrites < MaxDirectWrites
  /\ directWrites' = directWrites + 1
  /\ hashText(t) \in DOMAIN embeddingCache => e = embeddingCache[hashText(t)]
  /\ exactCache' = ExactWrite(exactCache, t, data, now, MAX_EXACT_ENTRIES)
  /\ embeddingCache' = SetEmbedding(embeddingCache, t, e)
  /\ semanticCache' = IF e = NoEmbedding THEN semanticCache
                      ELSE SemanticWrite(semanticCache, t, data, e, now,
                                         MAX_SEMANTIC_ENTRIES)
  /\ UNCHANGED <<clock, pc, locals, events>>

\* time passes
Tick(d) ==
  /\ pc = "idle"
  /\ ticks < MaxTicks
  /\ ticks' = ticks + 1
  /\ now' = now + d
  /\ UNCHANGED <<stores, pc, locals, events, counters>>

(***************************************************************************)
(* Spec: one ultraSpeedCheck call on empty stores, every verifier call     *)
(* answering, failing or timing out.                                       *)
(***************************************************************************)
\* a factual claim and an opinion
RequestTexts ==
  {<<"The sky is blue">>,
   <<"I think", Space, "the sky is blue">>}

ProviderAnswers == {<<1, 0>>, NoEmbedding}

\* the steps of a request after its first
Request ==
  \/ \E e \in ProviderAnswers : SemanticEmbedding(e)
  \/ \E i \in 1..4, a \in Answers : Respond(i, a)
  \/ \E i \in 1..4 : Fail(i)
  \/ Join
  \/ AfterFast
  \/ AfterMid
  \/ AfterFull
  \/ SourcesSettle
  \/ \E e \in ProviderAnswers : EmbeddingSettles(e)
  \/ \E e \in ProviderAnswers : WriteEmbedding(e)

Next ==
  \/ \E t \in RequestTexts : Begin(t)
  \/ Request
  \/ \E i \in 1..4 : Timeout(i)

Spec == Init /\ [][Next]_vars

(***************************************************************************)
(* SpecStores: one ultraSpeedCheck call on stores that other callers have  *)
(* written to, some time ago; every verifier call answers or fails.        *)
(***************************************************************************)
DirectTexts == {<<"i think", Tab, Space, "the sky is blue">>}

\* an opinion, and a factual claim that quickClean turns into the opinion's text
StoreTexts ==
  {<<"I think", Space, "the sky is blue">>,
   <<"um", Space, "I think", Space, "the sky is blue">>}

TickSteps == {EXACT_CACHE_TTL}

NextStores ==
  \/ \E t \in StoreTexts : Begin(t)
  \/ Request
  \/ \E t \in DirectTexts, d \in DirectPayloads, e \in ProviderAnswers : DirectWrite(t, d, e)
  \/ \E d \in TickSteps : Tick(d)

SpecStores == Init /\ [][NextStores]_vars

(***************************************************************************)
(* SpecCorrupt: as SpecStores, with a payload in the stores that is not a  *)
(* result: cacheResult(text, null).                                        *)
(***************************************************************************)
MalformedPayloads == {Null}

NextCorrupt ==
  \/ \E t \in StoreTexts : Begin(t)
  \/ Request
  \/ \E t \in DirectTexts, d \in MalformedPayloads, e \in ProviderAnswers :
       DirectWrite(t, d, e)
  \/ \E d \in TickSteps : Tick(d)

SpecCorrupt == Init /\ [][NextCorrupt]_vars

(***************************************************************************)
(* SpecTier: one tier run, runBucket followed by computeBucketScore, with  *)
(* verifiers that answer anything the scoring tells apart.                 *)
(***************************************************************************)
TierNames == {"FAST", "MID", "FULL"}

\* on-time answers: the three coarse classes of line 204, a verdict that
\* normalizeVerdict and line 204 rate differently, and a zero confidence
TierAnswers ==
  {[verdict |-> "true", confidence |-> 90],
   [verdict |-> "false", confidence |-> 80],
   [verdict |-> "mixed", confidence |-> 60],
   [verdict |-> "partially_true", confidence |-> 70],
   [verdict |-> "true", confidence |-> 0]}

\* runBucket(t, ...) has made its calls
InitTier ==
  /\ now = 0 /\ ticks = 0
  /\ exactCache = <<>> /\ semanticCache = <<>> /\ embeddingCache = <<>>
  /\ pc = "running" /\ text = <<"The sky is blue">>
  /\ tier \in TierNames
  /\ calls = [i \in 1..Len(Models(tier)) |-> PendingCall]
  /\ bucket = <<>>
  /\ fastResult = NotRun /\ midResult = NotRun /\ fullResult = NotRun
  /\ usedModels = NoUsedModels /\ skipInfo = NoSkipInfo
  /\ embeddingPromise = NoPromise /\ result = NoResult
  /\ events = CallEvents(tier) /\ directWrites = 0

\* lines 441, 470, 488: the responses of the tier are scored
ScoreBucket ==
  /\ pc = "joined"
  /\ pc' = "scored"
  /\ fastResult' = IF tier = "FAST" THEN computeBucketScore(bucket) ELSE fastResult
  /\ midResult' = IF tier = "MID" THEN computeBucketScore(bucket) ELSE midResult
  /\ fullResult' = IF tier = "FULL" THEN computeBucketScore(bucket) ELSE fullResult
  /\ UNCHANGED <<clock, stores, text, tier, calls, bucket, usedModels, skipInfo,
                 embeddingPromise, result, events, counters>>

NextTier ==
  \/ \E i \in 1..4, a \in TierAnswers : Respond(i, a)
  \/ \E i \in 1..4 : Fail(i)
  \/ \E i \in 1..4 : Timeout(i)
  \/ Join
  \/ ScoreBucket

SpecTier == InitTier /\ [][NextTier]_vars

\* SpecTier with what the code brings about sooner or later: the timer of
\* runWithTimeout fires on a call that has not settled, Promise.allSettled
\* resolves once every call has settled, and the result is scored
SpecTierLive ==
  /\ InitTier
  /\ [][NextTier]_vars
  /\ \A i \in 1..4 : WF_vars(Timeout(i))
  /\ WF_vars(Join)
  /\ WF_vars(ScoreBucket)

(***************************************************************************)
(* SpecGate: shouldRunFullBucket applied to any two tier results that      *)
(* computeBucketScore gives for up to MaxGateResponses responses.          *)
(***************************************************************************)
MaxGateResponses == 3

GateAnswers ==
  {[verdict |-> "true", confidence |-> 90],
   [verdict |-> "false", confidence |-> 80],
   [verdict |-> "mixed", confidence |-> 60]}

GateResults ==
  {computeBucketScore(r) : r \in UNION {[1..n -> GateAnswers] : n \in 0..MaxGateResponses}}

InitGate ==
  /\ now = 0 /\ ticks = 0
  /\ exactCache = <<>> /\ semanticCache = <<>> /\ embeddingCache = <<>>
  /\ pc = "gate" /\ text = <<"The sky is blue">>
  /\ tier = "MID" /\ calls = <<>> /\ bucket = <<>>
  /\ fastResult \in GateResults /\ midResult \in GateResults
  /\ fullResult = NotRun
  /\ usedModels = NoUsedModels /\ skipInfo = NoSkipInfo
  /\ embeddingPromise = NoPromise /\ result = NoResult
  /\ events = <<>> /\ directWrites = 0

\* lines 478-483: the decision on FULL
Decide ==
  /\ pc = "gate"
  /\ pc' = "decided"
  /\ skipInfo' = [skipInfo EXCEPT !.skippedFull = ~shouldRunFullBucket(fastResult, midResult)]
  /\ UNCHANGED <<clock, stores, text, tier, calls, bucket, fastResult, midResult,
                 fullResult, usedModels, embeddingPromise, result, events, counters>>

NextGate == Decide

SpecGate == InitGate /\ [][NextGate]_vars

(***************************************************************************)
(* SpecRace: a tier run in which the loser of each Promise.race of         *)
(* runWithTimeout settles too: the verifier after the timer has fired, or  *)
(* the timer, which is never cleared, after the verifier has settled.      *)
(***************************************************************************)
RaceAnswers ==
  {[verdict |-> "true", confidence |-> 90],
   [verdict |-> "false", confidence |-> 80]}

\* a late answer taken in place of the timeout response
LateArrival_replaces(i, a) ==
  /\ pc \in {"running", "joined", "scored"}
  /\ i \in DOMAIN calls
  /\ calls[i].st = "timeout"
  /\ Ev("late", Models(tier)[i]) \notin {events[k] : k \in DOMAIN events}
  /\ events' = Append(events, Ev("late", Models(tier)[i]))
  /\ calls' = [calls EXCEPT ![i] = [st |-> "ok", verdict |-> a.verdict,
                                    confidence |-> a.confidence]]
  /\ UNCHANGED <<clock, stores, pc, text, tier, bucket, fastResult, midResult,
                 fullResult, usedModels, skipInfo, embeddingPromise, result, counters>>

\* the verifier of call i answers a (or fails) after the timer has fired:
\* the race of lines 111-116 is decided, the late settlement has no reader
LateArrival(i, a) ==
  /\ pc \in {"running", "joined", "scored"}
  /\ i \in DOMAIN calls
  /\ calls[i].st = "timeout"
  /\ Ev("late", Models(tier)[i]) \notin {events[k] : k \in DOMAIN events}
  /\ events' = Append(events, Ev("late", Models(tier)[i]))
  /\ UNCHANGED <<clock, stores, pc, text, tier, calls, bucket, fastResult, midResult,
                 fullResult, usedModels, skipInfo, embeddingPromise, result, counters>>

\* the timer of call i fires after the verifier has answered or failed
LateTimer(i) ==
  /\ pc \in {"running", "joined", "scored"}
  /\ i \in DOMAIN calls
  /\ calls[i].st \in {"ok", "error"}
  /\ Ev("lateTimer", Models(tier)[i]) \notin {events[k] : k \in DOMAIN events}
  /\ events' = Append(events, Ev("lateTimer", Models(tier)[i]))
  /\ UNCHANGED <<clock, stores, pc, text, tier, calls, bucket, fastResult, midResult,
                 fullResult, usedModels, skipInfo, embeddingPromise, result, counters>>

NextRace ==
  \/ \E i \in 1..4, a \in RaceAnswers : Respond(i, a)
  \/ \E i \in 1..4 : Fail(i)
  \/ \E i \in 1..4 : Timeout(i)
  \/ \E i \in 1..4, a \in RaceAnswers : LateArrival(i, a)
  \/ \E i \in 1..4 : LateTimer(i)
  \/ Join
  \/ ScoreBucket

SpecRace == InitTier /\ [][NextRace]_vars

(***************************************************************************)
(* SpecLive: one ultraSpeedCheck call with the steps that the code and its *)
(* timers bring about sooner or later.  The timer of runWithTimeout fires  *)
(* on a call that has not settled (lines 111-116), allSettled resolves     *)
(* once every call has settled, quickSearchSources resolves after 4000 ms  *)
(* at the latest (webSearch.js 331-338), and the code between two awaits   *)
(* runs to the next one.  getEmbedding awaits the provider without a timer *)
(* (part_004 186-190), so nothing obliges its answer to arrive.            *)
(***************************************************************************)
LiveTexts == {<<"The sky is blue">>}

\* the embedding is at hand already, no provider call is being waited for
EmbeddingAtHand ==
  /\ embeddingPromise.st = "resolved"
  /\ EmbeddingSettles(embeddingPromise.value)

NextLive ==
  \/ \E t \in LiveTexts : Begin(t)
  \/ \E e \in ProviderAnswers : SemanticEmbedding(e)
  \/ \E i \in 1..4, a \in Answers : Respond(i, a)
  \/ \E i \in 1..4 : Timeout(i)
  \/ Join
  \/ AfterFast
  \/ AfterMid
  \/ AfterFull
  \/ SourcesSettle
  \/ \E e \in ProviderAnswers : EmbeddingSettles(e)
  \/ \E e \in ProviderAnswers : WriteEmbedding(e)

SpecLive ==
  /\ Init
  /\ [][NextLive]_vars
  /\ \A i \in 1..4 : WF_vars(Timeout(i))
  /\ WF_vars(Join)
  /\ WF_vars(AfterFast \/ AfterMid \/ AfterFull)
  /\ WF_vars(SourcesSettle)
  /\ WF_vars(EmbeddingAtHand)

(***************************************************************************)
(* SpecMerge: the end of a request whose FAST calls all failed, from the   *)
(* merge to the result, over every score MID and FULL can have come to.    *)
(***************************************************************************)
\* the settled calls of a tier whose first verifier answered true@a, whose
\* second answered false@(100-a) and whose others failed: the tier scores a
MergeCalls(t, a) ==
  [i \in 1..Len(Models(t)) |->
     IF i = 1 THEN [st |-> "ok", verdict |-> "true", confidence |-> a]
     ELSE IF i = 2 THEN [st |-> "ok", verdict |-> "false", confidence |-> 100 - a]
     ELSE [st |-> "error", verdict |-> Null, confidence |-> 0]]

\* the response lists a tier can have returned: none, or the two above
MergeBuckets(t) ==
  {<<>>} \cup {runBucket(t, MergeCalls(t, a)) : a \in 0..100}

\* line 500 is reached with FULL run after MID after FAST
InitMerge ==
  /\ now = 0 /\ ticks = 0
  /\ exactCache = <<>> /\ semanticCache = <<>> /\ embeddingCache = <<>>
  /\ pc = "awaitSources" /\ text = <<"The sky is blue">>
  /\ tier = Null /\ calls = <<>> /\ bucket = <<>>
  /\ fastResult = computeBucketScore(<<>>)
  /\ \E mb \in MergeBuckets("MID"), fb \in MergeBuckets("FULL") :
       /\ midResult = computeBucketScore(mb)
       /\ fullResult = computeBucketScore(fb)
       /\ usedModels = [fast |-> <<>>, mid |-> ModelNames(mb), full |-> ModelNames(fb)]
  /\ skipInfo = NoSkipInfo
  /\ embeddingPromise = [st |-> "pending", value |-> NoEmbedding]
  /\ result = NoResult
  /\ events = <<>> /\ directWrites = 0

NextMerge == SourcesSettle

SpecMerge == InitMerge /\ [][NextMerge]_vars

(***************************************************************************)
(* SpecHash: hashText applied to a text and then to its own normalized     *)
(* form, for every text of up to MaxTextLen tokens.                        *)
(***************************************************************************)
MaxTextLen == 4

HashTexts == UNION {[1..n -> Tokens] : n \in 0..MaxTextLen}

InitHash ==
  /\ now = 0 /\ ticks = 0
  /\ exactCache = <<>> /\ semanticCache = <<>> /\ embeddingCache = <<>>
  /\ pc = "idle" /\ text \in HashTexts
  /\ tier = Null /\ calls = <<>> /\ bucket = <<>>
  /\ fastResult = NotRun /\ midResult = NotRun /\ fullResult = NotRun
  /\ usedModels = NoUsedModels /\ skipInfo = NoSkipInfo
  /\ embeddingPromise = NoPromise /\ result = NoResult
  /\ events = <<>> /\ directWrites = 0

\* hashText(text): the normalized form that is digested
HashOnce ==
  /\ pc = "idle"
  /\ result' = [normalized |-> hashText(text)]
  /\ pc' = "hashed"
  /\ UNCHANGED <<clock, stores, text, tier, calls, bucket, fastResult, midResult,
                 fullResult, usedModels, skipInfo, embeddingPromise, events, counters>>

\* hashText of the normalized form
HashAgain ==
  /\ pc = "hashed"
  /\ result' = [normalized |-> hashText(result.normalized)]
  /\ pc' = "rehashed"
  /\ UNCHANGED <<clock, stores, text, tier, calls, bucket, fastResult, midResult,
                 fullResult, usedModels, skipInfo, embeddingPromise, events, counters>>

NextHash == HashOnce \/ HashAgain

SpecHash == InitHash /\ [][NextHash]_vars

(***************************************************************************)
(* SpecCache: the cache module called directly, cacheResult,               *)
(* checkExactCache and checkSemanticCache one call at a time, with time    *)
(* passing between and within the calls.                                   *)
(***************************************************************************)
MaxApiWrites == 2
MaxApiTicks == 1

\* texts that are stored, and texts that are looked up: the same claim in
\* other letter case and other white space, and a text never stored
ApiWriteTexts ==
  {<<Space, "The sky is blue", Tab>>,
   <<"I think", Tab, Space, "the sky is blue">>}
ApiQueryTexts ==
  {<<Space, "The sky is blue", Tab>>,
   <<"the sky is blue">>,
   <<"i think", Space, "the sky is blue">>,
   <<"um", Space, "the sky is blue">>}

\* the payloads of the cache tests
ApiPayloads == {[score |-> 85, verdict |-> "TRUE"], [score |-> 90, verdict |-> "TRUE"]}

\* what the embedding provider may answer for a text: <<7, 7, 1, 1, 0>> and
\* <<8, 5, 1, 1, 3>> have cosine similarity 93/100, <<8, 5, 1, 0, 3>> lies below
\* the threshold, <<22, 19, 3, 3, 3>> is nearer to the first than to the second
\* and <<15, 12, 2, 2, 3>> is as near to the one as to the other
ApiEmbeddings(t) ==
  CASE hashText(t) = <<"the sky is blue">> ->
         {<<8, 5, 1, 1, 3>>, <<8, 5, 1, 0, 3>>}
    [] hashText(t) = <<"i think", Space, "the sky is blue">> ->
         {<<7, 7, 1, 1, 0>>, <<0, 0, 0, 0, 0>>, NoEmbedding}
    [] OTHER ->
         {<<22, 19, 3, 3, 3>>, <<15, 12, 2, 2, 3>>, <<1, 0>>, NoEmbedding}

\* to the last moment of an entry's life, and to the first one after it
ApiSteps == {EXACT_CACHE_TTL - 1, EXACT_CACHE_TTL, SEMANTIC_CACHE_TTL - 1, SEMANTIC_CACHE_TTL}

\* no call of the module is under way
ApiReady == pc \in {"idle", "exactReturned", "semanticReturned"}

\* the record of a cacheResult call
Stored(t, data, at) == [ev |-> "cacheResult", arg |-> t, data |-> data, at |-> at]

\* lines 269-297 of checkSemanticCache on the filtered store
SemanticMatch(sc, embedding) ==
  LET m == BestMatch(sc, embedding)
  IN IF m = 0 THEN [hit |-> FALSE, embedding |-> embedding]
     ELSE [hit |-> TRUE, type |-> "semantic",
           similarity |-> <<Dot(embedding, sc[m].embedding), Dot(embedding, embedding),
                            Dot(sc[m].embedding, sc[m].embedding)>>,
           data |-> sc[m].data, originalText |-> sc[m].text]

\* checkExactCache(t)
checkExactCache(t) ==
  /\ ApiReady
  /\ text' = t
  /\ result' = IF ExactHit(exactCache, t, now)
               THEN [hit |-> TRUE, type |-> "exact", data |-> exactCache[hashText(t)].data]
               ELSE [hit |-> FALSE]
  /\ pc' = "exactReturned"
  /\ UNCHANGED <<clock, stores, tier, calls, bucket, fastResult, midResult, fullResult,
                 usedModels, skipInfo, embeddingPromise, events, counters>>

\* checkSemanticCache from the answer e of getEmbedding to its return
SemanticReturn(e) ==
  /\ IF e = NoEmbedding
     THEN /\ result' = [hit |-> FALSE, reason |-> "no_embedding"]
          /\ semanticCache' = semanticCache
     ELSE /\ semanticCache' = FilterFresh(semanticCache, now)
          /\ result' = SemanticMatch(semanticCache', e)
  /\ pc' = "semanticReturned"

\* checkSemanticCache(t) up to the provider call of getEmbedding, or to its
\* return where no provider call is made
checkSemanticCache(t) ==
  /\ ApiReady
  /\ text' = t
  /\ IF ExactHit(exactCache, t, now)
     THEN /\ result' = [hit |-> TRUE, type |-> "exact", data |-> exactCache[hashText(t)].data]
          /\ pc' = "semanticReturned"
          /\ semanticCache' = semanticCache
     ELSE IF hashText(t) \in DOMAIN embeddingCache
          THEN SemanticReturn(embeddingCache[hashText(t)])
          ELSE /\ pc' = "semChecking"
               /\ UNCHANGED <<semanticCache, result>>
  /\ UNCHANGED <<clock, exactCache, embeddingCache, tier, calls, bucket, fastResult,
                 midResult, fullResult, usedModels, skipInfo, embeddingPromise, events,
                 counters>>

\* the provider answers e to the getEmbedding call of checkSemanticCache
checkSemanticCache_embedded(e) ==
  /\ pc = "semChecking"
  /\ embeddingCache' = SetEmbedding(embeddingCache, text, e)
  /\ SemanticReturn(e)
  /\ UNCHANGED <<clock, exactCache, text, tier, calls, bucket, fastResult, midResult,
                 fullResult, usedModels, skipInfo, embeddingPromise, events, counters>>

\* cacheResult(t, data) up to the provider call of getEmbedding, or to its
\* return where no provider call is made
cacheResult(t, data) ==
  /\ ApiReady
  /\ directWrites < MaxApiWrites
  /\ directWrites' = directWrites + 1
  /\ text' = t
  /\ events' = Append(events, Stored(t, data, now))
  /\ exactCache' = ExactWrite(exactCache, t, data, now, MAX_EXACT_ENTRIES)
  /\ IF hashText(t) \in DOMAIN embeddingCache
     THEN /\ semanticCache' = SemanticWrite(semanticCache, t, data,
                                            embeddingCache[hashText(t)], now,
                                            MAX_SEMANTIC_ENTRIES)
          /\ pc' = "idle"
     ELSE /\ semanticCache' = semanticCache
          /\ pc' = "caching"
  /\ UNCHANGED <<clock, embeddingCache, tier, calls, bucket, fastResult, midResult,
                 fullResult, usedModels, skipInfo, embeddingPromise, result>>

\* the provider answers e to the getEmbedding call of cacheResult; the entry
\* carries the timestamp taken when cacheResult was called
cacheResult_embedded(e) ==
  /\ pc = "caching"
  /\ embeddingCache' = SetEmbedding(embeddingCache, text, e)
  /\ semanticCache' =
       IF e = NoEmbedding THEN semanticCache
       ELSE SemanticWrite(semanticCache, text, events[Len(events)].data, e,
                          events[Len(events)].at, MAX_SEMANTIC_ENTRIES)
  /\ pc' = "idle"
  /\ UNCHANGED <<clock, exactCache, text, tier, calls, bucket, fastResult, midResult,
                 fullResult, usedModels, skipInfo, embeddingPromise, result, events,
                 counters>>

\* time passes, between two calls or while a call waits for the provider
Pass(d) ==
  /\ ticks < MaxApiTicks
  /\ ticks' = ticks + 1
  /\ now' = now + d
  /\ pc' = IF ApiReady THEN "idle" ELSE pc
  /\ UNCHANGED <<stores, locals, events, counters>>

NextCache ==
  \/ \E t \in ApiWriteTexts, d \in ApiPayloads : cacheResult(t, d)
  \/ \E e \in ApiEmbeddings(text) : cacheResult_embedded(e)
  \/ \E t \in ApiQueryTexts : checkExactCache(t)
  \/ \E t \in ApiQueryTexts : checkSemanticCache(t)
  \/ \E e \in ApiEmbeddings(text) : checkSemanticCache_embedded(e)
  \/ \E d \in ApiSteps : Pass(d)

SpecCache == Init /\ [][NextCache]_vars

(***************************************************************************)
(* SpecWrite: cacheResult called several times over, for claims whose      *)
(* embeddings lie near one another.                                        *)
(***************************************************************************)
MaxStoreWrites == 3

StoreTextsNear ==
  {<<"The sky is blue">>,
   <<"I think", Space, "the sky is blue">>,
   <<"um", Space, "the sky is blue">>}

\* what the embedding provider may answer for a text: <<7, 5, 5, 1>> and
\* <<8, 4, 4, 2>> have cosine similarity 98/100, <<7, 5, 5, 0>> is nearer than
\* that to the first and farther from the second, <<15, 9, 9, 3>> is nearer than
\* that to all three
NearEmbeddings(t) ==
  CASE hashText(t) = <<"the sky is blue">> -> {<<7, 5, 5, 1>>}
    [] hashText(t) = <<"i think", Space, "the sky is blue">> ->
         {<<8, 4, 4, 2>>, <<7, 5, 5, 0>>}
    [] OTHER -> {<<15, 9, 9, 3>>, <<0, 0, 0, 0>>, NoEmbedding}

StoreSteps == {1, SEMANTIC_CACHE_TTL}

\* the record of a cacheResult call and of the embedding it wrote with
StoredWith(t, data, at, e) ==
  [ev |-> "cacheResult", arg |-> t, data |-> data, at |-> at, embedding |-> e]

\* cacheResult(t, data), the embedding e being the one getEmbedding has
\* cached for the text or the one the provider answers
cacheResult_answered(t, data, e) ==
  /\ pc = "idle"
  /\ directWrites < MaxStoreWrites
  /\ directWrites' = directWrites + 1
  /\ hashText(t) \in DOMAIN embeddingCache => e = embeddingCache[hashText(t)]
  /\ text' = t
  /\ events' = Append(events, StoredWith(t, data, now, e))
  /\ exactCache' = ExactWrite(exactCache, t, data, now, MAX_EXACT_ENTRIES)
  /\ embeddingCache' = SetEmbedding(embeddingCache, t, e)
  /\ semanticCache' = IF e = NoEmbedding THEN semanticCache
                      ELSE SemanticWrite(semanticCache, t, data, e, now,
                                         MAX_SEMANTIC_ENTRIES)
  /\ UNCHANGED <<clock, pc, tier, calls, bucket, fastResult, midResult, fullResult,
                 usedModels, skipInfo, embeddingPromise, result>>

NextWrite ==
  \/ \E t \in StoreTextsNear, d \in ApiPayloads :
       \E e \in NearEmbeddings(t) : cacheResult_answered(t, d, e)
  \/ \E d \in StoreSteps : Pass(d)

SpecWrite == Init /\ [][NextWrite]_vars

(***************************************************************************)
(* SpecFull: cacheResult called on a semantic store that earlier calls     *)
(* have filled to its capacity, or to one entry less.                      *)
(***************************************************************************)
\* an entry written by cacheResult(text, data, embedding) with a zero vector
\* passed in, which cosineSimilarity rates at 0 against every vector
FillerEntry(t) ==
  [embedding |-> <<0, 0, 0, 0, 0>>, data |-> [score |-> 85, verdict |-> "TRUE"],
   timestamp |-> t, text |-> <<"um", Space, "the sky is blue">>]

\* the stores such calls leave behind: all written within one millisecond,
\* the oldest entry first (never trimmed), the oldest entry last (as a trim
\* leaves it) and the oldest entry in the middle
FullStores ==
  {[i \in 1..n |-> FillerEntry(1)] : n \in {MAX_SEMANTIC_ENTRIES - 1, MAX_SEMANTIC_ENTRIES}}
  \cup {[i \in 1..MAX_SEMANTIC_ENTRIES |-> FillerEntry(IF i = k THEN 0 ELSE 1)] :
          k \in {1, MAX_SEMANTIC_ENTRIES \div 2, MAX_SEMANTIC_ENTRIES}}

InitFull ==
  /\ now = 1 /\ ticks = 0
  /\ semanticCache \in FullStores
  /\ exactCache = [k \in {hashText(FillerEntry(1).text)} |->
                     [data |-> FillerEntry(1).data, timestamp |-> 1]]
  /\ embeddingCache = <<>>
  /\ pc = "idle" /\ text = <<>> /\ tier = Null /\ calls = <<>> /\ bucket = <<>>
  /\ fastResult = NotRun /\ midResult = NotRun /\ fullResult = NotRun
  /\ usedModels = NoUsedModels /\ skipInfo = NoSkipInfo
  /\ embeddingPromise = NoPromise /\ result = NoResult
  /\ events = <<>> /\ directWrites = 0

NextFull ==
  \/ \E t \in ApiWriteTexts : cacheResult(t, [score |-> 90, verdict |-> "TRUE"])
  \/ \E e \in ApiEmbeddings(text) : cacheResult_embedded(e)
  \/ Pass(1)

SpecFull == InitFull /\ [][NextFull]_vars

(***************************************************************************)
(* SpecExactFull: cacheResult called on an exact store that earlier calls, *)
(* made while no embedding could be had, have filled with 5000 claims.     *)
(***************************************************************************)
\* 5000 normalized texts, each a row of eight words
FillerWord(d) == CASE d = 0 -> "um" [] d = 1 -> "i think" [] OTHER -> "the sky is blue"
FillerKeys ==
  {[i \in 1..8 |-> FillerWord((n \div (3 ^ (i - 1))) % 3)] : n \in 0..(MAX_EXACT_ENTRIES - 1)}

\* the stores at a time now: every entry written a millisecond ago, or every
\* entry but one written longer ago than the exact TTL
ExactFullStores ==
  {[k \in FillerKeys |-> [data |-> [score |-> 85, verdict |-> "TRUE"],
                          timestamp |-> IF old /\ k[1] # "um" THEN 0 ELSE EXACT_CACHE_TTL]] :
     old \in BOOLEAN}

InitExactFull ==
  /\ now = EXACT_CACHE_TTL + 1 /\ ticks = 0
  /\ exactCache \in ExactFullStores
  /\ semanticCache = <<>> /\ embeddingCache = <<>>
  /\ pc = "idle" /\ text = <<>> /\ tier = Null /\ calls = <<>> /\ bucket = <<>>
  /\ fastResult = NotRun /\ midResult = NotRun /\ fullResult = NotRun
  /\ usedModels = NoUsedModels /\ skipInfo = NoSkipInfo
  /\ embeddingPromise = NoPromise /\ result = NoResult
  /\ events = <<>> /\ directWrites = 0

NextExactFull ==
  \/ \E t \in ApiWriteTexts : cacheResult(t, [score |-> 90, verdict |-> "TRUE"])
  \/ \E e \in ApiEmbeddings(text) : cacheResult_embedded(e)
  \/ \E d \in {1, EXACT_CACHE_TTL} : Pass(d)

SpecExactFull == InitExactFull /\ [][NextExactFull]_vars

(***************************************************************************)
(* SpecConcurrent: several calls of the cache module under way at once.    *)
(* A call runs without interruption up to its await of the embedding       *)
(* provider and again from the provider's answer to its return; calls      *)
(* holds the calls that wait, events the cacheResult calls begun           *)
(* ("cacheResult") and returned ("stored"), in order.  clearExpiredEntries *)
(* runs on its timer between any two of these stretches.  pc tells which   *)
(* lookup has returned last, "idle" if something else has run since.       *)
(***************************************************************************)
MaxInFlight == 2
MaxConcurrentCalls == 3

\* the provider gives one embedding for a text, or none
ConcurrentEmbeddings(t) ==
  {IF hashText(t) = <<"the sky is blue">> THEN <<8, 5, 1, 1, 3>> ELSE <<7, 7, 1, 1, 0>>,
   NoEmbedding}

\* to the last moment of an exact entry's life, past it, and past the life
\* of a semantic entry
ConcurrentSteps == {EXACT_CACHE_TTL - 1, EXACT_CACHE_TTL + 1, SEMANTIC_CACHE_TTL}

Waiting(op, t, data, at) == [st |-> "pending", op |-> op, arg |-> t, data |-> data, at |-> at]
Returned_(t, data, at) == [ev |-> "stored", arg |-> t, data |-> data, at |-> at]
Without(cs, k) == [i \in 1..(Len(cs) - 1) |-> IF i < k THEN cs[i] ELSE cs[i + 1]]

\* cacheResult(t, data) from its start to the await of getEmbedding (lines
\* 302-319), and to its return where the embedding is cached
cacheResult_started(t, data) ==
  /\ ApiReady
  /\ directWrites < MaxConcurrentCalls
  /\ directWrites' = directWrites + 1
  /\ pc' = "idle"
  /\ exactCache' = ExactWrite(exactCache, t, data, now, MAX_EXACT_ENTRIES)
  /\ IF hashText(t) \in DOMAIN embeddingCache
     THEN /\ semanticCache' = SemanticWrite(semanticCache, t, data,
                                            embeddingCache[hashText(t)], now,
                                            MAX_SEMANTIC_ENTRIES)
          /\ events' = events \o <<Stored(t, data, now), Returned_(t, data, now)>>
          /\ calls' = calls
     ELSE /\ Len(calls) < MaxInFlight
          /\ semanticCache' = semanticCache
          /\ events' = Append(events, Stored(t, data, now))
          /\ calls' = Append(calls, Waiting("cacheResult", t, data, now))
  /\ UNCHANGED <<clock, embeddingCache, text, tier, bucket, fastResult, midResult,
                 fullResult, usedModels, skipInfo, embeddingPromise, result>>

\* the provider answers e to the waiting cacheResult call k: lines 194-212,
\* then 321-344
cacheResult_resumed(k, e) ==
  /\ k \in DOMAIN calls
  /\ calls[k].op = "cacheResult"
  /\ embeddingCache' = SetEmbedding(embeddingCache, calls[k].arg, e)
  /\ semanticCache' =
       IF e = NoEmbedding THEN semanticCache
       ELSE SemanticWrite(semanticCache, calls[k].arg, calls[k].data, e, calls[k].at,
                          MAX_SEMANTIC_ENTRIES)
  /\ events' = Append(events, Returned_(calls[k].arg, calls[k].data, calls[k].at))
  /\ calls' = Without(calls, k)
  /\ pc' = "idle"
  /\ UNCHANGED <<clock, exactCache, text, tier, bucket, fastResult, midResult,
                 fullResult, usedModels, skipInfo, embeddingPromise, result, counters>>

\* checkSemanticCache(t) from its start to the await of getEmbedding (lines
\* 260-266), and to its return where it does not have to wait
checkSemanticCache_started(t) ==
  /\ ApiReady
  /\ directWrites < MaxConcurrentCalls
  /\ directWrites' = directWrites + 1
  /\ IF ExactHit(exactCache, t, now)
     THEN /\ result' = [hit |-> TRUE, type |-> "exact", data |-> exactCache[hashText(t)].data]
          /\ pc' = "semanticReturned" /\ text' = t
          /\ UNCHANGED <<semanticCache, calls>>
     ELSE IF hashText(t) \in DOMAIN embeddingCache
          THEN /\ SemanticReturn(embeddingCache[hashText(t)])
               /\ text' = t
               /\ calls' = calls
          ELSE /\ Len(calls) < MaxInFlight
               /\ calls' = Append(calls, Waiting("checkSemanticCache", t, [hit |-> FALSE], now))
               /\ pc' = "idle"
               /\ UNCHANGED <<semanticCache, result, text>>
  /\ UNCHANGED <<clock, exactCache, embeddingCache, tier, bucket, fastResult, midResult,
                 fullResult, usedModels, skipInfo, embeddingPromise, events>>

\* the provider answers e to the waiting checkSemanticCache call k: lines
\* 194-212, then 266-297
checkSemanticCache_resumed(k, e) ==
  /\ k \in DOMAIN calls
  /\ calls[k].op = "checkSemanticCache"
  /\ embeddingCache' = SetEmbedding(embeddingCache, calls[k].arg, e)
  /\ SemanticReturn(e)
  /\ text' = calls[k].arg
  /\ calls' = Without(calls, k)
  /\ UNCHANGED <<clock, exactCache, tier, bucket, fastResult, midResult, fullResult,
                 usedModels, skipInfo, embeddingPromise, events, counters>>

\* a sweep that holds the semantic entries to the TTL of the exact store
clearExpiredEntries_oneTtl ==
  /\ exactCache' = [k \in {h \in DOMAIN exactCache :
                             ~(now - exactCache[h].timestamp > EXACT_CACHE_TTL)} |->
                      exactCache[k]]
  /\ semanticCache' = FilterFresh_exactTtl(semanticCache, now)
  /\ pc' = "idle"
  /\ UNCHANGED <<clock, embeddingCache, locals, events, counters>>

\* clearExpiredEntries, on its timer
clearExpiredEntries ==
  /\ exactCache' = [k \in {h \in DOMAIN exactCache :
                             ~(now - exactCache[h].timestamp > EXACT_CACHE_TTL)} |->
                      exactCache[k]]
  /\ semanticCache' = FilterFresh(semanticCache, now)
  /\ pc' = "idle"
  /\ UNCHANGED <<clock, embeddingCache, locals, events, counters>>

NextConcurrent ==
  \/ \E t \in ApiWriteTexts, d \in ApiPayloads : cacheResult_started(t, d)
  \/ \E k \in DOMAIN calls : \E e \in ConcurrentEmbeddings(calls[k].arg) :
       cacheResult_resumed(k, e)
  \/ \E t \in ApiWriteTexts : checkSemanticCache_started(t)
  \/ \E k \in DOMAIN calls : \E e \in ConcurrentEmbeddings(calls[k].arg) :
       checkSemanticCache_resumed(k, e)
  \/ \E t \in ApiWriteTexts : checkExactCache(t)
  \/ clearExpiredEntries
  \/ \E d \in ConcurrentSteps : Pass(d)

SpecConcurrent == Init /\ [][NextConcurrent]_vars

(***************************************************************************)
(* SpecScore: computeBucketScore, and computeTruthfulnessSpectrum within   *)
(* it, applied to response lists of up to MaxScoreResponses responses.     *)
(***************************************************************************)
MaxScoreResponses == 4

\* responses that are combined with each other
ScoreAnswers ==
  {[verdict |-> "true", confidence |-> 90],
   [verdict |-> "false", confidence |-> 89],
   [verdict |-> "false", confidence |-> 30],
   [verdict |-> "partially_true", confidence |-> 75],
   [verdict |-> "mixed", confidence |-> 55],
   [verdict |-> "unverifiable", confidence |-> 45],
   [verdict |-> "true", confidence |-> 0]}

\* every verdict, scored on its own
SingleAnswers ==
  {[verdict |-> v, confidence |-> 80] :
     v \in DOMAIN VERDICT_SCORES \cup OtherVerdicts \cup {Null}}

ScoreLists ==
  UNION {[1..n -> ScoreAnswers] : n \in 0..MaxScoreResponses}
    \cup {<<a>> : a \in SingleAnswers}

\* a tier run has returned the responses
InitScore ==
  /\ now = 0 /\ ticks = 0
  /\ exactCache = <<>> /\ semanticCache = <<>> /\ embeddingCache = <<>>
  /\ pc = "joined" /\ text = <<"The sky is blue">>
  /\ tier = "FULL" /\ calls = <<>>
  /\ bucket \in ScoreLists
  /\ fastResult = NotRun /\ midResult = NotRun /\ fullResult = NotRun
  /\ usedModels = NoUsedModels /\ skipInfo = NoSkipInfo
  /\ embeddingPromise = NoPromise /\ result = NoResult
  /\ events = <<>> /\ directWrites = 0

NextScore == ScoreBucket

SpecScore == InitScore /\ [][NextScore]_vars

(***************************************************************************)
(* Properties.                                                             *)
(***************************************************************************)
\* the result of the tier whose run is in progress
TierResult ==
  CASE tier = "FAST" -> fastResult
    [] tier = "MID" -> midResult
    [] OTHER -> fullResult

TimedOutCalls == {i \in DOMAIN calls : calls[i].st = "timeout"}
OnTimeCalls == {i \in DOMAIN calls : calls[i].st = "ok"}
FailedCalls == {i \in DOMAIN calls : calls[i].st = "error"}

\* ultraSpeedCheck has built its fact_check result from the tiers
Merged == fastResult.ran /\ pc \in {"awaitEmbedding", "writeEmbed", "done"}

\* C1: once FAST is scored, MID verifiers have been called exactly when it is
\* not the case that the FAST confidence is at least 0.88 and FAST agrees; and
\* when FAST is that confident, no MID and no FULL verifier is called, up to
\* and including the return of the request.
C1_MidIffFastGate ==
  fastResult.ran =>
    LET confident == fastResult.confidence >= SKIP_MID_THRESHOLD /\ fastResult.agreement
    IN /\ Count("call", "MID") > 0 <=> ~confident
       /\ confident => Count("call", "MID") = 0 /\ Count("call", "FULL") = 0

C1_Witness ==
  /\ pc = "done" /\ fastResult.ran
  /\ fastResult.confidence >= SKIP_MID_THRESHOLD /\ fastResult.agreement
  /\ skipInfo.skippedMid /\ skipInfo.skippedFull
  /\ Count("call", "MID") = 0 /\ Count("call", "FULL") = 0

\* C2: with a FAST and a MID result at hand, FULL is invoked exactly when the
\* combined confidence 0.4*fast + 0.6*mid is below 0.90, or one of the two
\* tiers disagrees internally, or both scores exist and differ by more than 20.
C2_FullIffGate ==
  pc = "decided" =>
    (~skipInfo.skippedFull <=>
       \/ 4 * fastResult.confidence + 6 * midResult.confidence < 27000
       \/ ~fastResult.agreement
       \/ ~midResult.agreement
       \/ /\ fastResult.score # NoScore /\ midResult.score # NoScore
          /\ AbsDiff(fastResult.score, midResult.score) > 20)

\* FULL is forced by the score divergence alone
C2_Witness ==
  /\ pc = "decided" /\ ~skipInfo.skippedFull
  /\ 4 * fastResult.confidence + 6 * midResult.confidence >= 27000
  /\ fastResult.agreement /\ midResult.agreement
  /\ AbsDiff(fastResult.score, midResult.score) > 20

\* C3: a step that calls MID verifiers starts where the tier in progress is
\* FAST and each of its three calls has answered, failed or timed out; a step
\* that calls FULL verifiers starts where the tier in progress is MID and each
\* of its two calls has settled; FULL verifiers are never called in a request
\* that has not called the MID verifiers.
C3_TiersInOrder ==
  [][ /\ Count("call", "MID")' > Count("call", "MID") =>
           /\ tier = "FAST" /\ Len(calls) = 3
           /\ \A i \in DOMAIN calls : calls[i].st \in {"ok", "error", "timeout"}
      /\ Count("call", "FULL")' > Count("call", "FULL") =>
           /\ tier = "MID" /\ Len(calls) = 2
           /\ \A i \in DOMAIN calls : calls[i].st \in {"ok", "error", "timeout"}
      /\ Count("call", "FULL")' > 0 => Count("call", "MID")' > 0 ]_vars

C3_Witness ==
  /\ pc = "running" /\ tier = "FULL"
  /\ Count("call", "MID") = 2 /\ Count("call", "FULL") = 4

\* what the settled call i weighs in the score: value times weight, and weight
CallValue(i) ==
  CASE calls[i].st = "ok" ->
         normalizeVerdict(calls[i].verdict) * ClampConfidence(calls[i].confidence)
    [] calls[i].st = "timeout" -> 35 * 25
    [] OTHER -> 0

CallWeight(i) ==
  CASE calls[i].st = "ok" -> ClampConfidence(calls[i].confidence)
    [] calls[i].st = "timeout" -> 25
    [] OTHER -> 0

\* C4: when a tier run has returned, every call that timed out has its entry
\* {unverifiable, 25, timedOut} in the response set under its model's name;
\* and the tier's result counts it: the score is the weighted mean over the
\* on-time answers and the timeouts at value 0.35 and weight 0.25, the tier
\* does not agree if an on-time answer of non-zero confidence says true or
\* false, and the confidence is scaled by the number of on-time answers plus
\* timeouts.  The run returns a result (it does not throw).
C4_TimedOutCounted ==
  (pc \in {"joined", "scored"} /\ TimedOutCalls # {}) =>
    /\ \A i \in TimedOutCalls : \E j \in DOMAIN bucket :
         bucket[j] = [success |-> TRUE, model |-> Models(tier)[i],
                      verdict |-> "unverifiable", confidence |-> 25,
                      timedOut |-> TRUE]
    /\ pc = "scored" =>
         LET num == SumSeq([i \in DOMAIN calls |-> CallValue(i)])
             den == SumSeq([i \in DOMAIN calls |-> CallWeight(i)])
             n == Cardinality(OnTimeCalls) + Cardinality(TimedOutCalls)
             base == IF TierResult.agreement THEN ConfAgree ELSE ConfDisagree
         IN /\ TierResult.ran
            /\ TierResult.score = RoundDiv(num, den)
            /\ TierResult.agreement =>
                 \A i \in OnTimeCalls :
                   calls[i].confidence # 0 =>
                     calls[i].verdict \notin {"true", "partially_true", "false"}
            /\ TierResult.confidence = Min({ConfOne, (base * n) \div 3})

C4_Witness ==
  /\ pc = "scored" /\ TimedOutCalls # {} /\ OnTimeCalls # {} /\ FailedCalls # {}
  /\ TierResult.score # NoScore

\* C5, as stated: a scored tier with a timed-out response has a confidence
\* strictly below that of a tier with as many responses, all on time and
\* agreeing.
C5_TimeoutLowersConfidence ==
  (pc = "scored" /\ TimedOutCalls # {}) =>
    TierResult.confidence <
      computeBucketScore([j \in 1..Len(bucket) |->
                            [verdict |-> "true", confidence |-> 90]]).confidence

\* the responses runBucket owes for the calls from i on that did not fail
RECURSIVE Remaining(_)
Remaining(i) ==
  IF i > Len(calls) THEN <<>>
  ELSE IF calls[i].st = "error" THEN Remaining(i + 1)
  ELSE <<[success |-> TRUE, model |-> Models(tier)[i],
          verdict |-> IF calls[i].st = "ok" THEN calls[i].verdict ELSE "unverifiable",
          confidence |-> IF calls[i].st = "ok" THEN calls[i].confidence ELSE 25,
          timedOut |-> calls[i].st = "timeout"]>> \o Remaining(i + 1)

\* C6: when a tier run has returned, no entry of the response set belongs to
\* a call that failed, the response set is exactly the other calls' responses
\* (one fewer for each failure), and the tier's result, which exists whatever
\* failed, is the score of those.
C6_FailedCallDropped ==
  pc \in {"joined", "scored"} =>
    /\ \A i \in FailedCalls : \A j \in DOMAIN bucket : bucket[j].model # Models(tier)[i]
    /\ Len(bucket) = Len(calls) - Cardinality(FailedCalls)
    /\ bucket = Remaining(1)
    /\ pc = "scored" =>
         /\ TierResult.ran
         /\ TierResult.score = computeTruthfulnessSpectrum(Remaining(1))
         /\ TierResult.score = NoScore <=>
              \A i \in DOMAIN calls :
                calls[i].st = "error" \/ (calls[i].st = "ok" /\ calls[i].confidence = 0)

C6_Witness ==
  /\ pc = "scored" /\ Cardinality(FailedCalls) = 1 /\ Cardinality(OnTimeCalls) >= 2
  /\ TierResult.score # NoScore

\* C7: when FULL ran and has a score, the result's score and confidence are
\* FULL's and its source is 'full', whatever FAST and MID scored.
C7_FullWins ==
  (Merged /\ fullResult.ran /\ fullResult.score # NoScore) =>
    /\ result.score = fullResult.score
    /\ result.confidence = fullResult.confidence
    /\ result.pipelineInfo.source = "full"

\* FULL contradicts FAST by more than 15 points and differs from MID
C7_Witness ==
  /\ pc = "done" /\ fullResult.ran /\ fullResult.score # NoScore
  /\ fastResult.score # NoScore /\ midResult.score # NoScore
  /\ AbsDiff(fastResult.score, fullResult.score) > 15
  /\ midResult.score # fullResult.score
  /\ result.score = fullResult.score

C9_AllErrorsUnknown ==
  (fastResult.ran /\ usedModels.fast = <<>>) =>
    /\ Count("call", "MID") = 2
    /\ (midResult.ran /\ usedModels.mid = <<>>) =>
         /\ Count("call", "FULL") = 4
         /\ (fullResult.ran /\ usedModels.full = <<>> /\ Merged) =>
              /\ result.mode = "fact_check"
              /\ result.score = NoScore
              /\ result.loraVerdict = "UNKNOWN"
              /\ ~result.pipelineInfo.skippedMid /\ ~result.pipelineInfo.skippedFull

C9_Witness ==
  /\ pc = "done" /\ fullResult.ran
  /\ usedModels = NoUsedModels
  /\ Count("call", "FAST") = 3 /\ Count("call", "MID") = 2 /\ Count("call", "FULL") = 4
  /\ result.loraVerdict = "UNKNOWN"

\* C10: the step in which ultraSpeedCheck takes up a text that the personal
\* filter classifies as personal is the step in which it returns; it makes no
\* call to a verifier, a cache lookup, the embedding provider or the source
\* search, writes to neither store nor to the embedding cache, and returns
\* mode 'personal' with a null score.
C10_PersonalBypass ==
  [][ (pc = "idle" /\ pc' # "idle" /\ detectPersonalStatement(text').isPersonal) =>
        /\ events' = events
        /\ exactCache' = exactCache
        /\ semanticCache' = semanticCache
        /\ embeddingCache' = embeddingCache
        /\ pc' = "done"
        /\ result'.mode = "personal"
        /\ result'.score = NoScore ]_vars

\* a personal text returned as personal although the exact store holds a live
\* entry under its key
C10_Witness ==
  /\ pc = "done" /\ events = <<>>
  /\ detectPersonalStatement(text).isPersonal
  /\ ExactHit(exactCache, quickClean(text), now)
  /\ semanticCache # <<>>
  /\ result.mode = "personal"

\* the weighted sum and the weight total of the scored responses, times 100
WeightedSum == SumSeq([i \in DOMAIN bucket |->
                 normalizeVerdict(bucket[i].verdict) * ClampConfidence(bucket[i].confidence)])
WeightTotal == SumSeq([i \in DOMAIN bucket |-> ClampConfidence(bucket[i].confidence)])

\* the parts of C17 that the amended statement keeps: the score is null
\* exactly when the weight total is 0, otherwise an integer of 0..100 nearest
\* to 100 * weighted sum / weight total; all true gives 100, all false 0
ScoreIsWeightedMean ==
  /\ TierResult.score = NoScore <=> WeightTotal = 0
  /\ TierResult.score # NoScore =>
       /\ TierResult.score \in 0..100
       /\ AbsDiff(2 * TierResult.score * WeightTotal, 2 * WeightedSum) <= WeightTotal
       /\ (\A i \in DOMAIN bucket : bucket[i].verdict = "true") => TierResult.score = 100
       /\ (\A i \in DOMAIN bucket : bucket[i].verdict = "false") => TierResult.score = 0

\* the scored responses are one true and one false, in this order
OneTrueOneFalse ==
  /\ Len(bucket) = 2
  /\ bucket[1].verdict = "true" /\ bucket[2].verdict = "false"

C18_VerdictValues ==
  (pc = "scored" /\ Len(bucket) = 1 /\ bucket[1].confidence > 0) =>
    TierResult.score =
      (IF LowerVerdict(bucket[1].verdict) \in DOMAIN VERDICT_SCORES
       THEN VERDICT_SCORES[LowerVerdict(bucket[1].verdict)]
       ELSE 35)

\* the coarse bucket of a verdict as C19 describes it
StatedBucket(verdict) ==
  CASE LowerVerdict(verdict) = "false" -> 0
    [] LowerVerdict(verdict) = "true" -> 100
    [] OTHER -> 50

\* C19, as stated: the tier agrees exactly when the buckets of its responses
\* (false 0, true 100, any other verdict 50) span at most 30.
C19_AgreementBuckets ==
  (/\ pc = "scored" /\ bucket # <<>>
   /\ \A i \in DOMAIN bucket : bucket[i].verdict # Null /\ bucket[i].confidence > 0) =>
    LET buckets == {StatedBucket(bucket[i].verdict) : i \in DOMAIN bucket}
    IN TierResult.agreement <=> Max(buckets) - Min(buckets) <= 30

\* C20, as stated: the confidence is base * min(1, n/3) with base 0.92 when
\* the tier agrees and 0.75 when it does not, 0 when the score is null; it
\* never exceeds 0.92, nor 0.75 for a tier that disagrees.
C20_ConfidenceScale ==
  pc = "scored" =>
    LET n == Len(bucket)
        base == IF TierResult.agreement THEN ConfAgree ELSE ConfDisagree
    IN /\ TierResult.confidence =
            (IF TierResult.score = NoScore THEN 0
             ELSE IF n >= 3 THEN base ELSE (base * n) \div 3)
       /\ TierResult.confidence <= ConfAgree
       /\ ~TierResult.agreement => TierResult.confidence <= ConfDisagree

\* the cacheResult calls made so far for the normalized form of the text
\* looked up last
StoredCalls == {i \in DOMAIN events : hashText(events[i].arg) = hashText(text)}

\* C12: checkExactCache(t') returns a miss for a text never stored, and,
\* before the exact TTL has passed since the last cacheResult(t, payload)
\* with the normalized form of t', a hit with exactly that payload.
C12_ExactRoundTrip ==
  pc = "exactReturned" =>
    IF StoredCalls = {} THEN ~result.hit
    ELSE now - events[Max(StoredCalls)].at < EXACT_CACHE_TTL =>
           /\ result.hit
           /\ result.data = events[Max(StoredCalls)].data
           /\ result.type = "exact"

\* a text stored twice in other letter case and white space is looked up
\* and the second payload comes back
C12_Witness ==
  /\ pc = "exactReturned" /\ result.hit
  /\ text = <<"i think", Space, "the sky is blue">>
  /\ Cardinality(StoredCalls) = 2
  /\ events[1].data # events[2].data
  /\ \A i \in StoredCalls : events[i].arg # text
  /\ result.data = events[2].data

\* a lookup has returned
Returned == pc \in {"exactReturned", "semanticReturned"}

\* the entry a hit was served from is younger than the TTL of its store
ServedFresh ==
  (Returned /\ result.hit) =>
    IF result.type = "exact"
    THEN /\ hashText(text) \in DOMAIN exactCache
         /\ exactCache[hashText(text)].data = result.data
         /\ now - exactCache[hashText(text)].timestamp < EXACT_CACHE_TTL
         /\ \E i \in StoredCalls : events[i].at = exactCache[hashText(text)].timestamp
    ELSE \E i \in DOMAIN semanticCache :
           /\ semanticCache[i].data = result.data
           /\ semanticCache[i].text = result.originalText
           /\ now - semanticCache[i].timestamp < SEMANTIC_CACHE_TTL
           /\ \E k \in DOMAIN events : events[k].at = semanticCache[i].timestamp

\* every entry carries the time of the cacheResult call that stored it
CreationTimestamps ==
  /\ \A k \in DOMAIN exactCache :
       LET made == {i \in DOMAIN events : hashText(events[i].arg) = k}
       IN made # {} /\ exactCache[k].timestamp = events[Max(made)].at
  /\ \A i \in DOMAIN semanticCache :
       \E k \in DOMAIN events :
         /\ events[k].arg = semanticCache[i].text
         /\ events[k].data = semanticCache[i].data
         /\ events[k].at = semanticCache[i].timestamp

\* C13: a lookup never serves an entry whose age has reached the TTL of its
\* store, and the timestamp of an entry stays the time of the cacheResult
\* call that stored it, whatever lookups have hit it since.
C13_NeverServedPastTtl == ServedFresh /\ CreationTimestamps

\* an exact entry is served in the last millisecond of its life
C13_Witness ==
  /\ pc = "exactReturned" /\ result.hit
  /\ now > 0
  /\ now - exactCache[hashText(text)].timestamp = EXACT_CACHE_TTL - 1

\* the embedding getEmbedding has for the text looked up last
QueryEmbedding ==
  IF hashText(text) \in DOMAIN embeddingCache
  THEN embeddingCache[hashText(text)] ELSE NoEmbedding

\* both vectors are there, of one length and not of zero norm
SimilarityDefined(a, b) ==
  /\ a # NoEmbedding /\ b # NoEmbedding /\ Len(a) = Len(b)
  /\ Dot(a, a) # 0 /\ Dot(b, b) # 0

\* the cosine similarity of a and b is 0.93 or more
ReachesThreshold(a, b) ==
  /\ SimilarityDefined(a, b)
  /\ Dot(a, b) > 0
  /\ 100 * 100 * Dot(a, b) * Dot(a, b) >= 93 * 93 * Dot(a, a) * Dot(b, b)

ReturnedEntry(i) ==
  /\ semanticCache[i].data = result.data
  /\ semanticCache[i].text = result.originalText
  /\ result.similarity = <<Dot(QueryEmbedding, semanticCache[i].embedding),
                           Dot(QueryEmbedding, QueryEmbedding),
                           Dot(semanticCache[i].embedding, semanticCache[i].embedding)>>

\* entry j is strictly nearer to the query than entry i
Nearer(j, i) ==
  /\ SimilarityDefined(QueryEmbedding, semanticCache[j].embedding)
  /\ Dot(QueryEmbedding, semanticCache[j].embedding) > 0
  /\ Dot(QueryEmbedding, semanticCache[j].embedding)
       * Dot(QueryEmbedding, semanticCache[j].embedding)
       * Dot(semanticCache[i].embedding, semanticCache[i].embedding)
     > Dot(QueryEmbedding, semanticCache[i].embedding)
         * Dot(QueryEmbedding, semanticCache[i].embedding)
         * Dot(semanticCache[j].embedding, semanticCache[j].embedding)

\* C15: a semantic hit returns an unexpired entry whose similarity to the
\* query is 0.93 or more and is not exceeded by any other unexpired entry,
\* whichever of them is more recent.
C15_HighestSimilarity ==
  (pc = "semanticReturned" /\ result.hit /\ result.type = "semantic") =>
    \E i \in DOMAIN semanticCache :
      /\ ReturnedEntry(i)
      /\ now - semanticCache[i].timestamp < SEMANTIC_CACHE_TTL
      /\ ReachesThreshold(QueryEmbedding, semanticCache[i].embedding)
      /\ \A j \in DOMAIN semanticCache :
           now - semanticCache[j].timestamp < SEMANTIC_CACHE_TTL => ~Nearer(j, i)

\* the entry returned is older than another entry that reaches the threshold
C15_Witness ==
  /\ pc = "semanticReturned" /\ result.hit /\ result.type = "semantic"
  /\ \E i, j \in DOMAIN semanticCache :
       /\ ReturnedEntry(i)
       /\ ReachesThreshold(QueryEmbedding, semanticCache[j].embedding)
       /\ Nearer(i, j)
       /\ semanticCache[j].timestamp > semanticCache[i].timestamp

\* a request for a text that is not a personal statement has begun
FactualRequest == text # <<>> /\ ~detectPersonalStatement(text).isPersonal

\* the positions in the event log of the events of one name
Positions(name) == {i \in DOMAIN events : events[i].ev = name}

\* C11: in a request that is not personal the exact lookup comes first, the
\* semantic lookup after it and only if it missed, and every verifier call
\* after both; a request answered from a store returns the stored data with
\* fromCache TRUE (and the similarity, for a semantic hit), having made no
\* verifier call and no cacheResult call.
C11_LookupsBeforeCalls ==
  FactualRequest =>
    /\ events # <<>> => events[1].ev = "exactLookup"
    /\ \A i \in Positions("call") :
         /\ \E k \in Positions("semanticLookup") : k < i
         /\ pc = "done" => ~result.fromCache
    /\ \A k \in Positions("semanticLookup") :
         /\ \E j \in Positions("exactLookup") : j < k
         /\ pc = "done" /\ result.fromCache => result.cacheType = "semantic"
    /\ (pc = "done" /\ result.fromCache) =>
         /\ Positions("call") = {}
         /\ Positions("exactWrite") = {} /\ Positions("semanticWrite") = {}
         /\ IF result.cacheType = "exact"
            THEN /\ ExactHit(exactCache, quickClean(text), now)
                 /\ result.data = exactCache[hashText(quickClean(text))].data
            ELSE /\ ~ExactHit(exactCache, quickClean(text), now)
                 /\ "cacheSimilarity" \in DOMAIN result
                 /\ \E i \in DOMAIN semanticCache :
                      /\ result.data = semanticCache[i].data
                      /\ result.cacheSimilarity[1] =
                           Dot(semanticCache[i].embedding,
                               embeddingCache[hashText(quickClean(text))])

\* a request answered from the semantic store after the exact entry expired
C11_Witness ==
  /\ FactualRequest /\ pc = "done"
  /\ result.fromCache /\ result.cacheType = "semantic"
  /\ result.data \in DirectPayloads
  /\ Positions("semanticLookup") # {}
  /\ Positions("call") = {}

\* a request that went through the verification tiers has returned
VerifiedRequest == FactualRequest /\ pc = "done" /\ ~result.fromCache

\* C16: a request that ran the tiers has called cacheResult exactly once,
\* after its last verifier call, with its final result, whatever that is;
\* the semantic store got the result exactly if an embedding was obtained,
\* and no store ever holds the result of a single tier.
C16_FinalResultCached ==
  /\ VerifiedRequest =>
       LET key == hashText(quickClean(text))
       IN /\ key \in DOMAIN exactCache
          /\ exactCache[key].data = result
          /\ Cardinality(Positions("exactWrite")) = 1
          /\ \A i \in Positions("call") : \A w \in Positions("exactWrite") : i < w
          /\ IF key \in DOMAIN embeddingCache
             THEN /\ Cardinality(Positions("semanticWrite")) = 1
                  /\ \E i \in DOMAIN semanticCache :
                       /\ semanticCache[i].data = result
                       /\ semanticCache[i].embedding = embeddingCache[key]
             ELSE Positions("semanticWrite") = {} /\ semanticCache = <<>>
  /\ pc # "done" => Positions("exactWrite") \cup Positions("semanticWrite") \subseteq
                      {Len(events) - 1, Len(events)}
  /\ \A k \in DOMAIN exactCache : exactCache[k].data = result
  /\ \A i \in DOMAIN semanticCache : semanticCache[i].data = result

\* a result without a score has been stored, in the exact store only
C16_Witness ==
  /\ VerifiedRequest
  /\ result.score = NoScore /\ result.loraVerdict = "UNKNOWN"
  /\ exactCache[hashText(quickClean(text))].data = result
  /\ semanticCache = <<>>

\* C21: the label of a result is UNKNOWN for a null score, TRUE for a score
\* of 70 or more, MIXED for 40..69 and FALSE below 40, whichever tier the
\* score comes from.
C21_VerdictFromScore ==
  Merged =>
    result.loraVerdict =
      (CASE result.score = NoScore -> "UNKNOWN"
         [] result.score # NoScore /\ result.score >= 70 -> "TRUE"
         [] result.score # NoScore /\ result.score >= 40 /\ result.score <= 69 -> "MIXED"
         [] OTHER -> "FALSE")

\* a score of 70 merged from MID is labelled TRUE
C21_Witness ==
  /\ Merged
  /\ result.score = 70 /\ result.pipelineInfo.source = "mid"
  /\ result.loraVerdict = "TRUE"

\* C22: normalizing a normalized text changes nothing, so a text and its
\* normalized form have the same key.
C22_NormalizeIdempotent ==
  pc = "rehashed" =>
    /\ result.normalized = hashText(text)
    /\ \A i \in DOMAIN result.normalized :
         /\ result.normalized[i] = LowerTok(result.normalized[i])
         /\ result.normalized[i] # Tab
         /\ IsSpace(result.normalized[i]) =>
              i \notin {1, Len(result.normalized)} /\ ~IsSpace(result.normalized[i + 1])

\* a text with capitals, white space at both ends and a run of white space
\* inside has been normalized twice
C22_Witness ==
  /\ pc = "rehashed"
  /\ text = <<Tab, "I think", Space, Tab>>
  /\ result.normalized = <<"i think">>

\* C23, as stated: a request that has begun returns a result, whichever
\* external service fails or never answers.
C23_AlwaysTerminates == (text # <<>>) ~> (pc = "done")

\* the embedding provider has given no embedding for the text of the request
NoEmbeddingYet == hashText(quickClean(text)) \notin DOMAIN embeddingCache

\* C24: while the provider has given no embedding, the request that is past
\* its semantic lookup has called the verifiers, and once it has returned,
\* its fact_check result is in the exact store and nothing is in the
\* semantic store.
C24_NoEmbeddingDegrades ==
  (FactualRequest /\ NoEmbeddingYet /\ pc \notin {"idle", "semEmbed"}) =>
    /\ Positions("call") # {}
    /\ Positions("semanticWrite") = {}
    /\ semanticCache = <<>>
    /\ pc = "done" =>
         /\ result.mode = "fact_check"
         /\ ~result.fromCache
         /\ Positions("exactWrite") # {}
         /\ exactCache[hashText(quickClean(text))].data = result

\* the provider gave no embedding at the lookup, during the tiers and at
\* the write, and the request has returned
C24_Witness ==
  /\ FactualRequest /\ NoEmbeddingYet /\ pc = "done"
  /\ Cardinality(Positions("embed")) = 3
  /\ exactCache[hashText(quickClean(text))].data = result

\* C25, as stated: a stored payload that is malformed is never returned as a
\* hit; the request that finds it runs the verification tiers.
C25_MalformedIsMiss ==
  (FactualRequest /\ pc = "done" /\ exactCache # <<>>) =>
    /\ result.fromCache => result.data \notin MalformedPayloads
    /\ Positions("call") # {}

\* what the verifiers of a tier run may contribute: the on-time answers of
\* SpecTier and the response that stands in for a timed-out call
ConfiguredAnswers ==
  TierAnswers \cup {[verdict |-> "unverifiable", confidence |-> TIMEOUT_CONFIDENCE]}

\* the results computeBucketScore can give for tier t as it is configured:
\* every list of up to as many responses as the tier has verifiers
ConfiguredResults(t) ==
  {computeBucketScore(r) :
     r \in UNION {[1..n -> ConfiguredAnswers] : n \in 0..Len(Models(t))}}

\* C26, as stated: there are verifier responses with which MID runs and FULL
\* is skipped; the FAST result of the request is one of them.
C26_MidWithoutFullReachable ==
  \E f \in ConfiguredResults("FAST") \cup {fastResult}, m \in ConfiguredResults("MID") :
    shouldRunMidBucket(f) /\ ~shouldRunFullBucket(f, m)

\* runBucket has returned the response of every call that answered on time
\* or timed out, in the order of the tier's verifiers, and of no other
Collected ==
  /\ \A i \in DOMAIN calls : calls[i].st # "pending"
  /\ Len(bucket) = Cardinality(OnTimeCalls \cup TimedOutCalls)
  /\ \A i \in OnTimeCalls :
       \E k \in DOMAIN bucket :
         /\ bucket[k].model = Models(tier)[i]
         /\ bucket[k].verdict = calls[i].verdict
         /\ bucket[k].confidence = calls[i].confidence
         /\ ~bucket[k].timedOut

\* C27: a tier run that has made its calls returns, whatever its verifiers
\* do, and it returns only when no call is pending, with the responses of
\* all verifiers that answered.
C27_TierCompletes ==
  /\ [](pc = "joined" => Collected)
  /\ (pc = "running") ~> (pc = "joined")

\* a tier has returned with a verifier that never answered and one that did
C27_Witness ==
  /\ pc = "joined"
  /\ TimedOutCalls # {} /\ OnTimeCalls # {}
  /\ Collected

\* a call that has settled keeps its outcome, and the responses a tier run
\* has returned stay as they are
OutcomesFinal ==
  /\ \A i \in DOMAIN calls : calls[i].st # "pending" => calls'[i] = calls[i]
  /\ pc \in {"joined", "scored"} => bucket' = bucket

\* C28: a tier run makes one call per verifier and no more; each call has
\* one outcome, on time, timed out or failed, that nothing arriving later
\* changes, and the responses returned are those of these outcomes.
C28_OneOutcomePerCall ==
  /\ [](/\ Cardinality(Positions("call")) = Len(Models(tier))
        /\ Len(calls) = Len(Models(tier))
        /\ \A i \in DOMAIN calls : calls[i].st \in {"pending", "ok", "timeout", "error"}
        /\ pc \in {"joined", "scored"} => Collected)
  /\ [][OutcomesFinal]_vars

\* the verifier of a timed-out call has answered after the tier returned
\* and the tier is scored on the timeout response
C28_Witness ==
  /\ pc = "scored"
  /\ \E i \in TimedOutCalls :
       /\ events[Len(events)] = Ev("late", Models(tier)[i])
       /\ \E k \in DOMAIN bucket : bucket[k].model = Models(tier)[i] /\ bucket[k].timedOut

\* a tier is running or has just returned
InTiers == pc \in {"running", "joined"}

\* the embedding promise exists and the source search has been started, both
\* ahead of every verifier call
StartedBeforeCalls ==
  /\ embeddingPromise.st # "none"
  /\ Cardinality(Positions("search")) = 1
  /\ \A i \in Positions("call") :
       /\ \A s \in Positions("search") : s < i
       /\ \A e \in Positions("embed") : e < i
  /\ embeddingPromise.st = "pending" =>
       \E e \in Positions("embed") : \E s \in Positions("search") : s = e + 1

\* the request reads neither promise while it runs the tiers; it waits for
\* the sources once the tiers are over, and for the embedding next, with
\* the cache write following at once
AwaitsInOrder ==
  /\ InTiers => /\ embeddingPromise' = embeddingPromise
                /\ result' = result
                /\ pc' \in {"running", "joined", "awaitSources"}
  /\ pc' = "awaitSources" => pc \in {"joined", "awaitSources"}
  /\ pc = "awaitSources" /\ pc' # pc =>
       /\ pc' = "awaitEmbedding"
       /\ events' = events /\ embeddingPromise' = embeddingPromise
  /\ pc = "awaitEmbedding" /\ pc' # pc =>
       /\ pc' \in {"done", "writeEmbed"}
       /\ Len(events') > Len(events)
       /\ events'[Len(events) + 1] = Ev("exactWrite", quickClean(text))

\* C29: on a cache miss the embedding computation and the source search
\* are started before the first FAST call and stay out of the way of the
\* tiers; the request waits for the sources only after the tiers are merged
\* and for the embedding only right before the cache write.
C29_BackgroundWorkOverlapsTiers ==
  /\ [](InTiers \/ pc \in {"awaitSources", "awaitEmbedding"} => StartedBeforeCalls)
  /\ [][AwaitsInOrder]_vars

\* MID has returned while the embedding asked for before FAST is still pending
C29_Witness ==
  /\ pc = "joined" /\ tier = "MID"
  /\ embeddingPromise.st = "pending"
  /\ Positions("search") # {}

\* the entry the latest cacheResult call has to store
WrittenEntry(w) ==
  [embedding |-> w.embedding, data |-> w.data, timestamp |-> w.at, text |-> w.arg]

\* the stored entries whose cosine similarity to e is above 0.98
SameClaim(sc, e) ==
  {i \in DOMAIN sc :
     /\ SimilarityDefined(e, sc[i].embedding)
     /\ Dot(e, sc[i].embedding) > 0
     /\ 100 * 100 * Dot(e, sc[i].embedding) * Dot(e, sc[i].embedding)
          > 98 * 98 * Dot(e, e) * Dot(sc[i].embedding, sc[i].embedding)}

\* what one cacheResult call does to the semantic store
WriteStep ==
  directWrites' # directWrites =>
    LET w == events'[Len(events')]
    IN IF w.embedding = NoEmbedding
       THEN semanticCache' = semanticCache
       ELSE IF SameClaim(semanticCache, w.embedding) # {}
            THEN /\ Len(semanticCache') = Len(semanticCache)
                 /\ \E i \in SameClaim(semanticCache, w.embedding) :
                      semanticCache' = [semanticCache EXCEPT ![i] = WrittenEntry(w)]
            ELSE semanticCache' = Append(semanticCache, WrittenEntry(w))

\* C30: a semantic write whose embedding has a cosine similarity above 0.98
\* to a stored entry replaces one such entry whole, where it stands, and
\* leaves the number of entries as it was; any other semantic write appends
\* exactly one entry, an entry at 0.98 itself being another claim.
C30_ReplaceOrAppend == [][WriteStep]_vars

\* two entries at similarity 0.98 of one another were both kept, and the
\* latest write, near to both and of another text, took the place of the first
C30_Witness ==
  /\ Len(semanticCache) = 2 /\ directWrites = 3
  /\ semanticCache[1].embedding = <<15, 9, 9, 3>>
  /\ semanticCache[1].text = <<"um", Space, "the sky is blue">>
  /\ semanticCache[2].embedding \in {<<7, 5, 5, 1>>, <<8, 4, 4, 2>>}
  /\ semanticCache[1].timestamp > semanticCache[2].timestamp

\* a step in which a cacheResult call of the cache module reaches the
\* semantic store, and the entry it has to store
ReachesSemanticStore ==
  /\ \/ directWrites' # directWrites /\ pc' = "idle"
     \/ pc = "caching" /\ pc' = "idle"
  /\ hashText(text') \in DOMAIN embeddingCache'

EntryToStore ==
  LET w == events'[Len(events')]
  IN [embedding |-> embeddingCache'[hashText(text')], data |-> w.data,
      timestamp |-> w.at, text |-> w.arg]

Occurrences(sc, x) == Cardinality({i \in DOMAIN sc : sc[i] = x})

\* the store after the step is the store with the new entry pushed, less one
\* entry that no entry is older than
OldestRemoved ==
  LET pushed == Append(semanticCache, EntryToStore)
      entries == {pushed[i] : i \in DOMAIN pushed}
  IN \E x \in entries :
       /\ \A y \in entries : y.timestamp >= x.timestamp
       /\ \A y \in entries :
            Occurrences(semanticCache', y) = Occurrences(pushed, y) - (IF y = x THEN 1 ELSE 0)

\* C31: the semantic store never holds more than 1000 entries after a
\* cacheResult call, and a write that pushes it past 1000 removes an entry
\* of the oldest timestamp: every entry kept is as recent as the one removed.
C31_SemanticStoreBounded ==
  /\ [](Len(semanticCache) <= MAX_SEMANTIC_ENTRIES)
  /\ [][ReachesSemanticStore /\ Len(semanticCache) = MAX_SEMANTIC_ENTRIES
          /\ SameClaim(semanticCache, EntryToStore.embedding) = {}
        => OldestRemoved]_vars

\* a full store has been trimmed: the new entry stands first and the entry
\* written before all others is gone
C31_Witness ==
  /\ Len(semanticCache) = MAX_SEMANTIC_ENTRIES
  /\ semanticCache[1].text \in ApiWriteTexts
  /\ \A i \in DOMAIN semanticCache : semanticCache[i].timestamp >= 1
  /\ semanticCache[1].timestamp > semanticCache[MAX_SEMANTIC_ENTRIES].timestamp

\* C37: an entry that cacheResult appends to the semantic store is in the
\* store when the call returns, whether or not the append made the store
\* trim itself and whatever the timestamps of the other entries.
C37_AppendedEntryKept ==
  [][ReachesSemanticStore /\ SameClaim(semanticCache, EntryToStore.embedding) = {}
       => \E i \in DOMAIN semanticCache' : semanticCache'[i] = EntryToStore]_vars

\* C32: the exact store never holds more entries than its maximum of 5000,
\* whatever is written to it.
C32_ExactStoreBounded == Cardinality(DOMAIN exactCache) <= MAX_EXACT_ENTRIES

\* C33: a lookup that finds an entry past its TTL reports a miss and takes
\* the entry out of its store: after checkExactCache has missed, the exact
\* store holds no expired entry for the text, and after checkSemanticCache
\* has gone through the semantic store, that store holds no expired entry.
C33_ExpiredEvictedOnLookup ==
  /\ pc = "exactReturned" /\ ~result.hit /\ hashText(text) \in DOMAIN exactCache
       => now - exactCache[hashText(text)].timestamp < EXACT_CACHE_TTL
  /\ pc = "semanticReturned" /\ "embedding" \in DOMAIN result
       => \A i \in DOMAIN semanticCache :
            now - semanticCache[i].timestamp < SEMANTIC_CACHE_TTL

\* C39: no two entries of the semantic store have a cosine similarity
\* above 0.98 to one another, whatever has been written.
C39_NoNearDuplicates ==
  \A j \in DOMAIN semanticCache :
    SameClaim(semanticCache, semanticCache[j].embedding) \subseteq {j}

\* the semantic entries written for the cleaned text t with the embedding the
\* provider gives for it, not of zero norm, whose age at the time now is past
\* the exact TTL and within the semantic one
WrittenBefore(t) ==
  {i \in DOMAIN semanticCache :
     /\ hashText(semanticCache[i].text) = hashText(t)
     /\ hashText(t) \in DOMAIN embeddingCache
     /\ semanticCache[i].embedding = embeddingCache[hashText(t)]
     /\ Dot(semanticCache[i].embedding, semanticCache[i].embedding) > 0
     /\ now - semanticCache[i].timestamp >= EXACT_CACHE_TTL
     /\ now - semanticCache[i].timestamp < SEMANTIC_CACHE_TTL}

\* the request that starts is answered at once with the data of such an entry
ServedFromSemantic ==
  pc = "idle" /\ pc' # "idle" /\ ~detectPersonalStatement(text').isPersonal
  /\ WrittenBefore(quickClean(text')) # {}
  /\ (hashText(quickClean(text')) \in DOMAIN exactCache
        => now - exactCache[hashText(quickClean(text'))].timestamp >= EXACT_CACHE_TTL)
  => /\ pc' = "done"
     /\ result'.fromCache /\ result'.cacheType = "semantic"
     /\ \E i \in WrittenBefore(quickClean(text')) : result'.data = semanticCache[i].data
     /\ result'.cacheSimilarity[1] * result'.cacheSimilarity[1]
          = result'.cacheSimilarity[2] * result'.cacheSimilarity[3]
     /\ {k \in DOMAIN events' : events'[k].ev = "call"} = {}

\* C38: a request for a text whose result was written with an embedding more
\* than ten minutes and less than 24 hours ago is answered from the semantic
\* store, with similarity 1 and without a verifier call: the exact TTL does
\* not force a new verification.
C38_SemanticOutlivesExact == [][ServedFromSemantic]_vars

\* ten minutes after the write the request was served from the semantic
\* store though the exact entry is still there, expired
C38_Witness ==
  /\ pc = "done" /\ now >= EXACT_CACHE_TTL
  /\ result.fromCache /\ result.cacheType = "semantic"
  /\ hashText(quickClean(text)) \in DOMAIN exactCache
  /\ now - exactCache[hashText(quickClean(text))].timestamp >= EXACT_CACHE_TTL
  /\ Positions("call") = {}

\* the scores of the tiers that ran and produced one
TierScores == {fastResult.score, midResult.score, fullResult.score} \ {NoScore}

\* C35: a merged score that is not null lies between the smallest and the
\* largest score of the tiers that produced one; a tier without a score adds
\* nothing to it.
C35_MergedWithinTierScores ==
  Merged /\ result.score # NoScore =>
    /\ TierScores # {}
    /\ Min(TierScores) <= result.score
    /\ result.score <= Max(TierScores)

\* the verifiers of the tier in progress whose calls were answered on time
\* or timed out, in the order of the tier's list
CountedVerifiers ==
  LET counted == {i \in DOMAIN calls : calls[i].st \in {"ok", "timeout"}}
      nth(k) == CHOOSE i \in counted : Cardinality({j \in counted : j < i}) = k - 1
  IN [k \in 1..Cardinality(counted) |-> Models(tier)[nth(k)]]

\* the list of used verifiers written when a tier has returned
UsedModelsWritten ==
  pc = "joined" /\ pc' # pc =>
    /\ tier = "FAST" => usedModels'.fast = CountedVerifiers
    /\ tier = "MID" => usedModels'.mid = CountedVerifiers
    /\ tier = "FULL" => usedModels'.full = CountedVerifiers
    /\ tier # "FAST" => usedModels'.fast = usedModels.fast
    /\ tier # "MID" => usedModels'.mid = usedModels.mid
    /\ tier # "FULL" => usedModels'.full = usedModels.full

\* the flags and lists of a result agree with the tiers that ran
FlagsMatchRun ==
  Merged /\ pc = "done" =>
    /\ result.mode = "fact_check"
    /\ result.pipelineInfo.skippedMid => result.pipelineInfo.skippedFull
    /\ result.pipelineInfo.skippedMid <=> ~midResult.ran
    /\ result.pipelineInfo.skippedFull <=> ~fullResult.ran
    /\ midResult.ran <=> Count("call", "MID") > 0
    /\ fullResult.ran <=> Count("call", "FULL") > 0
    /\ result.pipelineInfo.skippedMid => result.usedModels.mid = <<>>
    /\ result.pipelineInfo.skippedFull => result.usedModels.full = <<>>
    /\ result.pipelineInfo.source = "full" => fullResult.ran
    /\ result.pipelineInfo.source = "mid" => midResult.ran
    /\ result.usedModels = usedModels

\* C36: in a result of the tiers skippedMid implies skippedFull, the list of
\* used verifiers of a skipped tier is empty, the source is 'full' or 'mid'
\* only if that tier ran, and each list names exactly the verifiers whose
\* responses, on time or timed out, the tier counted.
C36_FlagsMatchRun == []FlagsMatchRun /\ [][UsedModelsWritten]_vars

\* FULL ran after MID with some verifiers failing: the lists are partial
C36_Witness ==
  /\ Merged /\ pc = "done"
  /\ ~result.pipelineInfo.skippedMid /\ ~result.pipelineInfo.skippedFull
  /\ result.pipelineInfo.source = "full"
  /\ Len(result.usedModels.fast) = 2
  /\ Len(result.usedModels.mid) = 1
  /\ Len(result.usedModels.full) = 3

\* the cacheResult calls for the text last looked up that have begun, and
\* those that have returned, by their places in the log
BegunWrites ==
  {i \in DOMAIN events : events[i].ev = "cacheResult" /\ hashText(events[i].arg) = hashText(text)}
ReturnedWrites ==
  {i \in DOMAIN events : events[i].ev = "stored" /\ hashText(events[i].arg) = hashText(text)}

\* checkExactCache has returned the payload of the write at place i of the log
Serves(i) ==
  now - events[i].at < EXACT_CACHE_TTL => result.hit /\ result.data = events[i].data

\* no step takes an unexpired entry out of the semantic store, other than a
\* cacheResult call that writes an embedding above 0.98 of it in its place
SemanticWritesKept ==
  \A i \in DOMAIN semanticCache :
    now' - semanticCache[i].timestamp < SEMANTIC_CACHE_TTL =>
      \/ \E j \in DOMAIN semanticCache' : semanticCache'[j] = semanticCache[i]
      \/ /\ Len(events') > Len(events)
         /\ events'[Len(events')].ev = "stored"
         /\ hashText(events'[Len(events')].arg) \in DOMAIN embeddingCache'
         /\ i \in SameClaim(semanticCache,
                            embeddingCache'[hashText(events'[Len(events')].arg)])

====
